---- MODULE Spec2Model ----
(***************************************************************************)
(* A model of the rCore kernel's task manager, trap handler, physical      *)
(* frame allocator and SV39 page tables (os/src/task, os/src/trap,         *)
(* os/src/mm).                                                             *)
(*                                                                         *)
(* The module holds several specifications over one set of variables:      *)
(*   SpecTask   the task manager driven by the trap handler                *)
(*   SpecFind   find_next_task applied to arbitrary task tables            *)
(*   SpecFrame  the stack frame allocator under alloc / tracker drop       *)
(*   SpecMem    address spaces under task loading, area insert and unmap   *)
(*   SpecTbb    translated_byte_buffer applied to a loaded address space   *)
(*   SpecPool   frame_alloc and tracker drops on stale memory              *)
(*   SpecCall   one page-table operation or system call on a loaded task   *)
(*   SpecSleep  the 03sleep application next to a task that yields         *)
(*   SpecBorrow the exclusive borrows of the global cells along the kernel *)
(*              paths, one borrow or release per step                      *)
(*   SpecConv   the address conversions, the user library's clock and      *)
(*              checkmem applied to bounded arguments                      *)
(*   SpecSched  the task table under the traps that reschedule, each       *)
(*              running task trapping eventually                           *)
(* Each specification leaves the variables of the others unchanged.        *)
(***************************************************************************)
EXTENDS Integers, Sequences, FiniteSets, TLC

VARIABLES
    \* ---- task manager (os/src/task/mod.rs) and trap path ----
    num_app,        \* TaskManager.num_app
    ureg_max,       \* largest register value the linked applications use
    task_status,    \* TaskManagerInner.tasks[i].task_status
    current_task,   \* TaskManagerInner.current_task
    kcont,          \* per task: where its saved TaskContext resumes in the kernel
    trap_cx,        \* per task: the TrapContext page (x10, x17, sepc)
    phase,          \* "boot" | "user" | "shutdown" | "panic" | "find" | "found"
    timer_due,      \* the time CSR has reached the programmed trigger
    last_event,     \* history: the trap cause / syscall handled by the last step
    last_task,      \* history: the task that trapped in the last step
    last_resume,    \* history: the continuation the last switch resumed
    snap,           \* history: per task, the user registers at its last trap
    found,          \* SpecFind: the value returned by find_next_task
    \* ---- frame allocator (os/src/mm/frame_allocator.rs) ----
    current,        \* StackFrameAllocator.current
    end,            \* StackFrameAllocator.end
    recycled,       \* StackFrameAllocator.recycled (a Vec used as a stack)
    trackers,       \* the live FrameTrackers held by a caller (a Vec)
    init_start,     \* history: the l passed to init
    alloc_ret,      \* history: what the last frame_alloc returned
    fa_state,       \* "ok" | "panic" (dealloc's validity check failed)
    \* ---- physical memory and address spaces (os/src/mm) ----
    mem,            \* the frames [ekernel, MEMORY_END): frame -> cell -> word
    kernel_space,   \* KERNEL_SPACE: [page_table, areas]
    tcbs,           \* TaskManagerInner.tasks: [memory_set, trap_cx_ppn, base_size]
    mm_state,       \* "off" | "ok" | "panic"
    mm_ops,         \* area inserts and unmaps performed so far
    mm_event,       \* history: the last memory operation
    tbb_in,         \* SpecTbb: the arguments of translated_byte_buffer
    tbb_out,        \* SpecTbb: what it returned ([ok, v]), <<>> before the call
    call_in,        \* SpecPool, SpecCall: the operation applied and its arguments
    call_out,       \* SpecPool, SpecCall: what it returned, <<>> before the call
    mtime,          \* SpecSleep: the time CSR
    sleep,          \* SpecSleep: the task running 03sleep ([pc, running, t0, now])
    borrow,         \* SpecBorrow: [held, code, next, resumed, ran, task_cx]
    waited          \* SpecSched: per task, the switches made since it was passed over

schedVars == <<num_app, ureg_max, task_status, current_task, kcont, trap_cx,
               phase, timer_due, last_event, last_task, last_resume, snap, found>>
frameVars == <<current, end, recycled, trackers, init_start, alloc_ret, fa_state>>
sleepVars == <<mtime, sleep, borrow, waited>>
memVars == <<mem, kernel_space, tcbs, mm_state, mm_ops, mm_event, tbb_in, tbb_out,
             call_in, call_out, sleepVars>>
vars == <<schedVars, frameVars, memVars>>

\* ------------------------------------------------------------------ bounds
MaxApp == 3
MaxReg == 1
MaxStart == 2
MaxFrames == 3
MaxSleepSecs == 5

\* --------------------------------------------------------------- constants
SYSCALL_EXIT == 93
SYSCALL_YIELD == 124
FD_STDOUT == 1
MSEC_PER_SEC == 1000
MICRO_PER_SEC == 1000000
CLOCK_FREQ == 10000000

NoTask == 0 - 1
NoFrame == 0 - 1

TaskStatus == {"Ready", "Running", "Exited"}

\* The traps trap_handler's match names, and two it does not.
FaultCauses == {"StoreFault", "StorePageFault", "LoadFault", "LoadPageFault",
                "IllegalInstruction"}
OtherCauses == {"InstructionFault", "InstructionPageFault"}

\* ------------------------------------------------------------ task manager

\* app_init_context: registers zeroed, sepc = entry point (0 in the model).
app_init_context == [x10 |-> 0, x17 |-> 0, sepc |-> 0]

\* Register files a user program may hold when it traps.
UserRegs(m, ids) == [x10 : 0..m, x17 : ids, sepc : IF m = 0 THEN {0} ELSE {0, 4}]

mark_current_suspended_stuck(status, cur) == status
mark_current_suspended(status, cur) == [status EXCEPT ![cur] = "Ready"]

mark_current_exited_ready(status, cur) == [status EXCEPT ![cur] = "Ready"]
mark_current_exited(status, cur) == [status EXCEPT ![cur] = "Exited"]

\* (current + 1..current + num_app + 1).map(|id| id % num_app).find(Ready)
RECURSIVE FindFrom(_, _, _, _)
FindFrom(status, n, id, stop) ==
    IF id >= stop THEN NoTask
    ELSE IF status[id % n] = "Ready" THEN id % n
    ELSE FindFrom(status, n, id + 1, stop)

find_next_task_lowest(status, cur, n) == FindFrom(status, n, 0, n)
find_next_task_skip_self(status, cur, n) == FindFrom(status, n, cur + 1, cur + n)
find_next_task_any(status, cur, n) ==
    IF \E k \in 1..n : status[(cur + k) % n] # "Running"
    THEN (cur + (CHOOSE k \in 1..n : status[(cur + k) % n] # "Running")) % n
    ELSE NoTask
find_next_task(status, cur, n) == FindFrom(status, n, cur + 1, cur + n + 1)

\* QEMU_EXIT_HANDLE.exit_success(): the machine stops; it returns to no one.
exit_success == "halt"

\* run_next_task on a task table: the new table, the new current, and how
\* control leaves the function ("switch": through __switch; "halt": the
\* machine stopped; "return": back into the caller).
run_next_task_no_shutdown(status, cur, n) ==
    LET next == find_next_task(status, cur, n) IN
    IF next # NoTask
    THEN [status |-> [status EXCEPT ![next] = "Running"], cur |-> next,
          how |-> "switch"]
    ELSE [status |-> status, cur |-> cur, how |-> "return"]
run_next_task(status, cur, n) ==
    LET next == find_next_task(status, cur, n) IN
    IF next # NoTask
    THEN [status |-> [status EXCEPT ![next] = "Running"], cur |-> next,
          how |-> "switch"]
    ELSE [status |-> status, cur |-> cur, how |-> exit_success]

suspend_current_and_run_next(status, cur, n) ==
    run_next_task(mark_current_suspended(status, cur), cur, n)

exit_current_and_run_next(status, cur, n) ==
    run_next_task(mark_current_exited(status, cur), cur, n)

\* The rest of the handler a task was in when it was switched out, run when
\* __switch returns into it: sys_yield returns 0 into x10, then every path
\* reaches trap_return.
resume_writes_x10(cont) == cont \in {"sys_yield", "timer"}
resume_leaves_x10(cont) == FALSE
resume_sets_x10(cont) == cont = "sys_yield"

ResumeCx(cx, t, cont) ==
    IF resume_sets_x10(cont) THEN [cx EXCEPT ![t].x10 = 0] ELSE cx

\* set_next_trigger: the trigger moves CLOCK_FREQ / TICKS_PER_SEC ahead of time.
set_next_trigger(due) == FALSE

\* __alltraps: the user registers are stored in the current task's TrapContext.
save_trap_cx(cx, cur, r) == [cx EXCEPT ![cur] = r]

\* The system call gate: the handler a syscall id selects.
syscall(id) ==
    IF id = SYSCALL_YIELD THEN "sys_yield"
    ELSE IF id = SYSCALL_EXIT THEN "sys_exit"
    ELSE "unsupported"

\* ------------------------------------------------ task manager: the actions

TaskInit(n, m) ==
    /\ num_app = n
    /\ ureg_max = m
    /\ task_status = [t \in 0..(n - 1) |-> "Ready"]
    /\ current_task = 0
    /\ kcont = [t \in 0..(n - 1) |-> "trap_return"]
    /\ trap_cx = [t \in 0..(n - 1) |-> app_init_context]
    /\ timer_due = FALSE
    /\ last_event = "init"
    /\ last_task = NoTask
    /\ last_resume = "none"
    /\ snap = [t \in 0..(n - 1) |-> app_init_context]
    /\ found = NoTask

FrameIdle ==
    /\ current = 0
    /\ end = 0
    /\ recycled = <<>>
    /\ trackers = <<>>
    /\ init_start = 0
    /\ alloc_ret = NoFrame
    /\ fa_state = "ok"

MemIdle ==
    /\ mem = <<>>
    /\ kernel_space = <<>>
    /\ tcbs = <<>>
    /\ mm_state = "off"
    /\ mm_ops = 0
    /\ mm_event = "none"
    /\ tbb_in = <<>>
    /\ tbb_out = <<>>
    /\ call_in = <<>>
    /\ call_out = <<>>
    /\ mtime = 0
    /\ sleep = <<>>
    /\ borrow = <<>>
    /\ waited = <<>>

\* The tail of run_next_task and of the handler resumed by __switch, up to
\* trap_return; onreturn is where the caller goes if run_next_task returns
\* without switching.
SwitchTail(res, cx1, mycont, onreturn) ==
    /\ task_status' = res.status
    /\ current_task' = res.cur
    /\ IF res.how = "switch"
       THEN LET cont == IF res.cur = current_task THEN mycont ELSE kcont[res.cur] IN
            /\ kcont' = [kcont EXCEPT ![current_task] = mycont]
            /\ trap_cx' = ResumeCx(cx1, res.cur, cont)
            /\ last_resume' = cont
            /\ phase' = "user"
       ELSE /\ kcont' = kcont
            /\ trap_cx' = cx1
            /\ last_resume' = "none"
            /\ phase' = (IF res.how = "halt" THEN "shutdown" ELSE onreturn)

\* run_first_task: tasks[0] becomes Running and __switch enters its task_cx.
RunFirstTask ==
    /\ phase = "boot"
    /\ task_status' = [task_status EXCEPT ![0] = "Running"]
    /\ trap_cx' = ResumeCx(trap_cx, 0, kcont[0])
    /\ last_resume' = kcont[0]
    /\ phase' = "user"
    /\ last_event' = "run_first"
    /\ UNCHANGED <<num_app, ureg_max, current_task, kcont, timer_due, last_task,
                   snap, found, frameVars, memVars>>

\* trap_handler, UserEnvCall arm: sepc += 4, then the dispatcher on x17.
UserEnvCall(r) ==
    /\ phase = "user"
    /\ LET cx0 == save_trap_cx(trap_cx, current_task, r)
           cx1 == [cx0 EXCEPT ![current_task].sepc = @ + 4]
           id == cx1[current_task].x17
       IN IF syscall(id) = "sys_yield"
          THEN /\ SwitchTail(suspend_current_and_run_next(task_status, current_task, num_app),
                             cx1, "sys_yield", "user")
               /\ last_event' = "yield"
          ELSE /\ SwitchTail(exit_current_and_run_next(task_status, current_task, num_app),
                             cx1, "sys_exit", "panic")
               /\ last_event' = "exit"
    /\ last_task' = current_task
    /\ snap' = [snap EXCEPT ![current_task] = r]
    /\ UNCHANGED <<num_app, ureg_max, timer_due, found, frameVars, memVars>>

\* trap_handler, the store/load fault and illegal instruction arms.
UserFault(cause, r) ==
    /\ phase = "user"
    /\ cause \in FaultCauses
    /\ SwitchTail(exit_current_and_run_next(task_status, current_task, num_app),
                  save_trap_cx(trap_cx, current_task, r), "fault", "user")
    /\ last_event' = cause
    /\ last_task' = current_task
    /\ snap' = [snap EXCEPT ![current_task] = r]
    /\ UNCHANGED <<num_app, ureg_max, timer_due, found, frameVars, memVars>>

\* trap_handler, SupervisorTimer arm.
TimerInterrupt(r) ==
    /\ phase = "user"
    /\ timer_due
    /\ timer_due' = set_next_trigger(timer_due)
    /\ SwitchTail(suspend_current_and_run_next(task_status, current_task, num_app),
                  save_trap_cx(trap_cx, current_task, r), "timer", "user")
    /\ last_event' = "timer"
    /\ last_task' = current_task
    /\ snap' = [snap EXCEPT ![current_task] = r]
    /\ UNCHANGED <<num_app, ureg_max, found, frameVars, memVars>>

\* trap_handler, the default arm: panic.
UnsupportedTrap(cause, r) ==
    /\ phase = "user"
    /\ cause \in OtherCauses
    /\ trap_cx' = save_trap_cx(trap_cx, current_task, r)
    /\ phase' = "panic"
    /\ last_event' = cause
    /\ last_task' = current_task
    /\ last_resume' = "none"
    /\ snap' = [snap EXCEPT ![current_task] = r]
    /\ UNCHANGED <<num_app, ureg_max, task_status, current_task, kcont, timer_due,
                   found, frameVars, memVars>>

\* The time CSR reaches the trigger programmed by set_timer.
ClockAdvance ==
    /\ phase \in {"boot", "user"}
    /\ ~timer_due
    /\ timer_due' = TRUE
    /\ last_event' = "clock"
    /\ UNCHANGED <<num_app, ureg_max, task_status, current_task, kcont, trap_cx,
                   phase, last_task, last_resume, snap, found, frameVars, memVars>>

InitTask ==
    /\ \E cfg \in {<<n, 0>> : n \in 1..MaxApp} \cup {<<n, MaxReg>> : n \in 1..(MaxApp - 1)} :
           TaskInit(cfg[1], cfg[2])
    /\ phase = "boot"
    /\ FrameIdle
    /\ MemIdle

NextTask ==
    \/ RunFirstTask
    \/ \E r \in UserRegs(ureg_max, {SYSCALL_EXIT, SYSCALL_YIELD}) : UserEnvCall(r)
    \/ \E c \in FaultCauses, r \in UserRegs(ureg_max, {0}) : UserFault(c, r)
    \/ \E r \in UserRegs(ureg_max, {0}) : TimerInterrupt(r)
    \/ \E c \in OtherCauses, r \in UserRegs(ureg_max, {0}) : UnsupportedTrap(c, r)
    \/ ClockAdvance

SpecTask == InitTask /\ [][NextTask]_vars

\* ------------------------------------------------------- find_next_task alone

SchedIdle ==
    /\ ureg_max = 0
    /\ kcont = <<>>
    /\ trap_cx = <<>>
    /\ timer_due = FALSE
    /\ last_event = "init"
    /\ last_task = NoTask
    /\ last_resume = "none"
    /\ snap = <<>>

InitFind ==
    /\ num_app \in 1..MaxApp
    /\ task_status \in [0..(num_app - 1) -> TaskStatus]
    /\ current_task \in 0..(num_app - 1)
    /\ phase = "find"
    /\ found = NoTask
    /\ SchedIdle
    /\ FrameIdle
    /\ MemIdle

ApplyFind ==
    /\ phase = "find"
    /\ found' = find_next_task(task_status, current_task, num_app)
    /\ phase' = "found"
    /\ UNCHANGED <<num_app, ureg_max, task_status, current_task, kcont, trap_cx,
                   timer_due, last_event, last_task, last_resume, snap, frameVars, memVars>>

NextFind == ApplyFind

SpecFind == InitFind /\ [][NextFind]_vars

\* ------------------------------------------------------------ frame allocator

Range(s) == {s[i] : i \in 1..Len(s)}
RemoveAt(s, i) == [j \in 1..(Len(s) - 1) |-> IF j < i THEN s[j] ELSE s[j + 1]]

\* StackFrameAllocator::alloc on (current, end, recycled): the returned
\* Option<PhysPageNum> and the new current and recycled.
alloc_prefer_fresh(cur, e, rec) ==
    IF cur < e
    THEN [ret |-> cur, current |-> cur + 1, recycled |-> rec]
    ELSE IF Len(rec) > 0
    THEN [ret |-> rec[Len(rec)], current |-> cur,
          recycled |-> SubSeq(rec, 1, Len(rec) - 1)]
    ELSE [ret |-> NoFrame, current |-> cur, recycled |-> rec]
alloc_no_pop(cur, e, rec) ==
    IF Len(rec) > 0
    THEN [ret |-> rec[Len(rec)], current |-> cur, recycled |-> rec]
    ELSE IF cur = e
    THEN [ret |-> NoFrame, current |-> cur, recycled |-> rec]
    ELSE [ret |-> cur, current |-> cur + 1, recycled |-> rec]
alloc(cur, e, rec) ==
    IF Len(rec) > 0
    THEN [ret |-> rec[Len(rec)], current |-> cur,
          recycled |-> SubSeq(rec, 1, Len(rec) - 1)]
    ELSE IF cur = e
    THEN [ret |-> NoFrame, current |-> cur, recycled |-> rec]
    ELSE [ret |-> cur, current |-> cur + 1, recycled |-> rec]

\* StackFrameAllocator::dealloc: the validity check, then the push.
dealloc_ok_unissued_only(cur, rec, ppn) == ~(ppn >= cur)
dealloc_ok(cur, rec, ppn) == ~(ppn >= cur \/ \E i \in 1..Len(rec) : rec[i] = ppn)
dealloc(cur, rec, ppn) == Append(rec, ppn)

\* init(l, r), called once on the allocator new() built.
InitFrame ==
    /\ \E l \in 0..MaxStart, k \in 0..MaxFrames :
           /\ current = l
           /\ end = l + k
           /\ init_start = l
    /\ recycled = <<>>
    /\ trackers = <<>>
    /\ alloc_ret = NoFrame
    /\ fa_state = "ok"
    /\ num_app = 1
    /\ task_status = <<>>
    /\ current_task = 0
    /\ phase = "frames"
    /\ found = NoTask
    /\ SchedIdle
    /\ MemIdle

\* frame_alloc: alloc, and a FrameTracker for the frame it returned.
FrameAlloc ==
    /\ fa_state = "ok"
    /\ LET a == alloc(current, end, recycled) IN
       /\ current' = a.current
       /\ recycled' = a.recycled
       /\ alloc_ret' = a.ret
       /\ trackers' = IF a.ret = NoFrame THEN trackers ELSE Append(trackers, a.ret)
    /\ UNCHANGED <<end, init_start, fa_state, schedVars, memVars>>

\* FrameTracker::drop of the i-th tracker held: frame_dealloc(ppn).
DropTracker(i) ==
    /\ fa_state = "ok"
    /\ i \in 1..Len(trackers)
    /\ trackers' = RemoveAt(trackers, i)
    /\ IF dealloc_ok(current, recycled, trackers[i])
       THEN /\ recycled' = dealloc(current, recycled, trackers[i])
            /\ fa_state' = "ok"
       ELSE /\ recycled' = recycled
            /\ fa_state' = "panic"
    /\ UNCHANGED <<current, end, init_start, alloc_ret, schedVars, memVars>>

NextFrame ==
    \/ FrameAlloc
    \/ \E i \in 1..Len(trackers) : DropTracker(i)

SpecFrame == InitFrame /\ [][NextFrame]_vars

\* ================================================== memory (os/src/mm, config)

\* The SV39 layout scaled down: a page holds PAGE_SIZE cells, a cell holds one
\* byte or one page-table entry, so a page-table node has PAGE_SIZE entries
\* and a virtual page number has three indexes of PAGE_SIZE_BITS bits each.
PAGE_SIZE_BITS == 2
MEMORY_END_PAGES == 56
\* the number of area inserts and unmaps a behaviour of SpecMem performs
MaxMemOps == 2

PAGE_SIZE == 2 ^ PAGE_SIZE_BITS
USER_STACK_SIZE == PAGE_SIZE * 2
KERNEL_STACK_SIZE == PAGE_SIZE * 2
MEMORY_END == MEMORY_END_PAGES * PAGE_SIZE

NUM_PTE_PER_VIRT_PAGE == PAGE_SIZE
VA_WIDTH_SV39 == 4 * PAGE_SIZE_BITS
VPN_WIDTH_SV39 == VA_WIDTH_SV39 - PAGE_SIZE_BITS
PPN_WIDTH_SV39 == VPN_WIDTH_SV39 + 2
PA_WIDTH_SV39 == PPN_WIDTH_SV39 + PAGE_SIZE_BITS
\* usize: wide enough for a page-table entry (ppn << 10 | flags) and for satp
\* (mode in the top four bits above the ppn).
USIZE_BITS == PPN_WIDTH_SV39 + 12
USIZE == 2 ^ USIZE_BITS

TRAMPOLINE == USIZE - PAGE_SIZE
TRAP_CONTEXT == TRAMPOLINE - PAGE_SIZE

kernel_stack_position_no_guard(app_id) ==
    LET top == TRAMPOLINE - app_id * KERNEL_STACK_SIZE IN
    [bottom |-> top - KERNEL_STACK_SIZE, top |-> top]
kernel_stack_position(app_id) ==
    LET top == TRAMPOLINE - app_id * (KERNEL_STACK_SIZE + PAGE_SIZE) IN
    [bottom |-> top - KERNEL_STACK_SIZE, top |-> top]

\* The linker script's layout of the kernel image, in pages: page 0 unused,
\* one MMIO window, then .text (the trampoline is its first page), .rodata,
\* .data, .bss; the frame allocator gets [ekernel, MEMORY_END).
MMIO == << <<PAGE_SIZE, PAGE_SIZE>> >>
stext == 2 * PAGE_SIZE
strampoline == stext
etext == 3 * PAGE_SIZE
srodata == etext
erodata == 4 * PAGE_SIZE
sdata == erodata
edata == 5 * PAGE_SIZE
sbss_with_stack == edata
ebss == 6 * PAGE_SIZE
ekernel == ebss

\* ---- address.rs
PhysAddr_from(v) == v % (2 ^ PA_WIDTH_SV39)
VirtAddr_from(v) == v % (2 ^ VA_WIDTH_SV39)
PhysPageNum_from(v) == v % (2 ^ PPN_WIDTH_SV39)
VirtPageNum_from(v) == v % (2 ^ VPN_WIDTH_SV39)

floor(a) == a \div PAGE_SIZE
\* (self.0 - 1 + PAGE_SIZE) / PAGE_SIZE in wrapping usize arithmetic
ceil(a) == ((((a + USIZE - 1) % USIZE) + PAGE_SIZE) % USIZE) \div PAGE_SIZE
page_offset(a) == a % PAGE_SIZE

\* From<VirtPageNum> for VirtAddr: a shift, no mask
VirtAddr_from_vpn(vpn) == vpn * PAGE_SIZE
PhysAddr_from_ppn(ppn) == ppn * PAGE_SIZE

\* From<VirtAddr> for usize without the sign extension
usize_from_VirtAddr_no_extend(v) == v

\* From<VirtAddr> for usize: sign extension from bit VA_WIDTH - 1
usize_from_VirtAddr(v) ==
    IF v >= 2 ^ (VA_WIDTH_SV39 - 1)
    THEN (v % (2 ^ VA_WIDTH_SV39)) + (USIZE - 2 ^ VA_WIDTH_SV39)
    ELSE v

indexes(vpn) ==
    << (vpn \div (NUM_PTE_PER_VIRT_PAGE * NUM_PTE_PER_VIRT_PAGE)) % NUM_PTE_PER_VIRT_PAGE,
       (vpn \div NUM_PTE_PER_VIRT_PAGE) % NUM_PTE_PER_VIRT_PAGE,
       vpn % NUM_PTE_PER_VIRT_PAGE >>

\* StepByOne for VirtPageNum: start + 1, through From<usize>
forward_one(vpn) == VirtPageNum_from(vpn + 1)

\* ---- page_table.rs: PTEFlags and PageTableEntry
PTEFlags_V == 1
PTEFlags_R == 2
PTEFlags_W == 4
PTEFlags_X == 8
PTEFlags_U == 16

HasFlag(flags, f) == (flags \div f) % 2 = 1
WithFlag(flags, f) == IF HasFlag(flags, f) THEN flags ELSE flags + f

PageTableEntry_new(ppn, flags) == ppn * (2 ^ 10) + flags
PageTableEntry_empty == 0
pte_ppn(bits) == PhysPageNum_from((bits \div (2 ^ 10)) % (2 ^ PPN_WIDTH_SV39))
pte_flags(bits) == bits % (2 ^ 8)
is_valid(bits) == HasFlag(pte_flags(bits), PTEFlags_V)

\* ---- frame_allocator.rs on the heap H = [mem, current, recycled]
ZeroPage == [i \in 0..(PAGE_SIZE - 1) |-> 0]

\* The value of a one-element set: Only({e(x) : x \in {v}}) is e(v), with v
\* computed once.
Only(S) == CHOOSE y \in S : TRUE

\* frame_alloc: alloc, and FrameTracker::new clears the page
frame_alloc_no_fill(H) ==
    Only({ IF a.ret = NoFrame
           THEN [ppn |-> NoFrame, H |-> H]
           ELSE [ppn |-> a.ret,
                 H |-> [mem |-> H.mem, current |-> a.current, recycled |-> a.recycled]]
           : a \in {alloc(H.current, end, H.recycled)} })
frame_alloc(H) ==
    Only({ IF a.ret = NoFrame
           THEN [ppn |-> NoFrame, H |-> H]
           ELSE [ppn |-> a.ret,
                 H |-> [mem |-> [H.mem EXCEPT ![a.ret] = ZeroPage],
                        current |-> a.current, recycled |-> a.recycled]]
           : a \in {alloc(H.current, end, H.recycled)} })

\* FrameTracker::drop: frame_dealloc; ok is FALSE where dealloc panics
frame_dealloc(H, ppn) ==
    IF dealloc_ok(H.current, H.recycled, ppn)
    THEN [ok |-> TRUE, H |-> [H EXCEPT !.recycled = dealloc(H.current, H.recycled, ppn)]]
    ELSE [ok |-> FALSE, H |-> H]

\* ---- page_table.rs: PageTable = [root_ppn, frames]
NoSlot == [ppn |-> NoFrame, idx |-> 0]

PageTable_new(H) ==
    Only({ [ok |-> a.ppn # NoFrame, H |-> a.H,
            pt |-> [root_ppn |-> a.ppn, frames |-> <<a.ppn>>]]
           : a \in {frame_alloc(H)} })

\* find_pte_create from level i (1..3) at node ppn: the heap, the table's
\* frames and the slot (node, index) of the leaf entry.
RECURSIVE WalkCreate(_, _, _, _, _)
WalkCreate(H, frames, ppn, idxs, i) ==
    IF i = 3
    THEN [ok |-> TRUE, H |-> H, frames |-> frames, slot |-> [ppn |-> ppn, idx |-> idxs[i]]]
    ELSE IF ~is_valid(H.mem[ppn][idxs[i]])
    THEN Only({ IF a.ppn = NoFrame
                THEN [ok |-> FALSE, H |-> H, frames |-> frames, slot |-> NoSlot]
                ELSE Only({ WalkCreate(H2, Append(frames, a.ppn),
                                       pte_ppn(H2.mem[ppn][idxs[i]]), idxs, i + 1)
                            : H2 \in {[a.H EXCEPT !.mem[ppn][idxs[i]] =
                                          PageTableEntry_new(a.ppn, PTEFlags_V)]} })
                : a \in {frame_alloc(H)} })
    ELSE WalkCreate(H, frames, pte_ppn(H.mem[ppn][idxs[i]]), idxs, i + 1)

\* find_pte_create without the push of the new frames onto the table's list
find_pte_create_untracked(H, pt, vpn) ==
    Only({ [ok |-> w.ok, H |-> w.H, pt |-> pt, slot |-> w.slot]
           : w \in {WalkCreate(H, pt.frames, pt.root_ppn, indexes(vpn), 1)} })

find_pte_create(H, pt, vpn) ==
    Only({ [ok |-> w.ok, H |-> w.H, pt |-> [pt EXCEPT !.frames = w.frames],
            slot |-> w.slot]
           : w \in {WalkCreate(H, pt.frames, pt.root_ppn, indexes(vpn), 1)} })

\* find_pte: None (NoSlot) at an invalid branch entry
RECURSIVE Walk(_, _, _, _)
Walk(m, ppn, idxs, i) ==
    IF i = 3
    THEN [ppn |-> ppn, idx |-> idxs[i]]
    ELSE IF ~is_valid(m[ppn][idxs[i]])
    THEN NoSlot
    ELSE Walk(m, pte_ppn(m[ppn][idxs[i]]), idxs, i + 1)

find_pte(m, pt, vpn) == Walk(m, pt.root_ppn, indexes(vpn), 1)

\* map: panics (ok FALSE) on a frame shortage or an entry already valid
PageTable_map_overwrite(H, pt, vpn, ppn, flags) ==
    Only({ IF ~r.ok
           THEN [ok |-> FALSE, H |-> H, pt |-> pt]
           ELSE [ok |-> TRUE, pt |-> r.pt,
                 H |-> [r.H EXCEPT !.mem[r.slot.ppn][r.slot.idx] =
                            PageTableEntry_new(ppn, WithFlag(flags, PTEFlags_V))]]
           : r \in {find_pte_create(H, pt, vpn)} })
PageTable_map(H, pt, vpn, ppn, flags) ==
    Only({ IF ~r.ok \/ is_valid(r.H.mem[r.slot.ppn][r.slot.idx])
           THEN [ok |-> FALSE, H |-> H, pt |-> pt]
           ELSE [ok |-> TRUE, pt |-> r.pt,
                 H |-> [r.H EXCEPT !.mem[r.slot.ppn][r.slot.idx] =
                            PageTableEntry_new(ppn, WithFlag(flags, PTEFlags_V))]]
           : r \in {find_pte_create(H, pt, vpn)} })

\* unmap: panics on a missing branch or an entry not valid
PageTable_unmap_unchecked(H, pt, vpn) ==
    Only({ IF s = NoSlot
           THEN [ok |-> FALSE, H |-> H]
           ELSE [ok |-> TRUE, H |-> [H EXCEPT !.mem[s.ppn][s.idx] = PageTableEntry_empty]]
           : s \in {find_pte(H.mem, pt, vpn)} })
PageTable_unmap_keep(H, pt, vpn) ==
    Only({ IF s = NoSlot \/ ~is_valid(H.mem[s.ppn][s.idx])
           THEN [ok |-> FALSE, H |-> H]
           ELSE [ok |-> TRUE, H |-> H]
           : s \in {find_pte(H.mem, pt, vpn)} })
PageTable_unmap(H, pt, vpn) ==
    Only({ IF s = NoSlot \/ ~is_valid(H.mem[s.ppn][s.idx])
           THEN [ok |-> FALSE, H |-> H]
           ELSE [ok |-> TRUE, H |-> [H EXCEPT !.mem[s.ppn][s.idx] = PageTableEntry_empty]]
           : s \in {find_pte(H.mem, pt, vpn)} })

\* translate: Option<PageTableEntry>, a copy of the entry find_pte found
translate(m, pt, vpn) ==
    Only({ IF s = NoSlot THEN [some |-> FALSE, bits |-> 0]
           ELSE [some |-> TRUE, bits |-> m[s.ppn][s.idx]]
           : s \in {find_pte(m, pt, vpn)} })

token(pt) == 8 * (2 ^ (USIZE_BITS - 4)) + pt.root_ppn
from_token_owning(satp) ==
    [root_ppn |-> PhysPageNum_from(satp % (2 ^ PPN_WIDTH_SV39)),
     frames |-> <<PhysPageNum_from(satp % (2 ^ PPN_WIDTH_SV39))>>]
from_token(satp) == [root_ppn |-> PhysPageNum_from(satp % (2 ^ PPN_WIDTH_SV39)),
                     frames |-> <<>>]

\* A Vec<FrameTracker> going out of scope: the trackers are dropped in
\* index order, each one calling frame_dealloc
RECURSIVE DropFrames(_, _, _)
DropFrames(H, frames, i) ==
    IF i > Len(frames)
    THEN [ok |-> TRUE, H |-> H]
    ELSE Only({ IF ~d.ok THEN d ELSE DropFrames(d.H, frames, i + 1)
                : d \in {frame_dealloc(H, frames[i])} })

\* PageTable going out of scope: root_ppn is a plain number, frames is dropped
PageTable_drop(H, pt) == DropFrames(H, pt.frames, 1)

\* ---- memory_set.rs: MapArea = [vpn_start, vpn_end, data_frames, map_type,
\* map_perm], MemorySet = [page_table, areas]
MapPermission_R == 2
MapPermission_W == 4
MapPermission_X == 8
MapPermission_U == 16

NoFrames == [v \in {} |-> NoFrame]

\* MapArea::new; VPNInterval::new panics (ok FALSE) when start > end
MapArea_new(start_va, end_va, map_type, map_perm) ==
    [ok |-> floor(start_va) <= ceil(end_va),
     area |-> [vpn_start |-> floor(start_va), vpn_end |-> ceil(end_va),
               data_frames |-> NoFrames, map_type |-> map_type,
               map_perm |-> map_perm]]

\* map_one with the Framed branch's tracker dropped instead of recorded
map_one_untracked(H, pt, area, vpn) ==
    IF area.map_type = "Identical"
    THEN Only({ [ok |-> r.ok, H |-> r.H, pt |-> r.pt, area |-> area]
                : r \in {PageTable_map(H, pt, vpn, PhysPageNum_from(vpn), area.map_perm)} })
    ELSE Only({ IF a.ppn = NoFrame
                THEN [ok |-> FALSE, H |-> H, pt |-> pt, area |-> area]
                ELSE Only({ [ok |-> r.ok, H |-> r.H, pt |-> r.pt, area |-> area]
                            : r \in {PageTable_map(a.H, pt, vpn, a.ppn, area.map_perm)} })
                : a \in {frame_alloc(H)} })

map_one(H, pt, area, vpn) ==
    IF area.map_type = "Identical"
    THEN Only({ [ok |-> r.ok, H |-> r.H, pt |-> r.pt, area |-> area]
                : r \in {PageTable_map(H, pt, vpn, PhysPageNum_from(vpn), area.map_perm)} })
    ELSE Only({ IF a.ppn = NoFrame
                THEN [ok |-> FALSE, H |-> H, pt |-> pt, area |-> area]
                ELSE Only({ [ok |-> r.ok, H |-> r.H, pt |-> r.pt,
                             area |-> [area EXCEPT !.data_frames =
                                 [v \in DOMAIN area.data_frames \cup {vpn} |->
                                     IF v = vpn THEN a.ppn ELSE area.data_frames[v]]]]
                            : r \in {PageTable_map(a.H, pt, vpn, a.ppn, area.map_perm)} })
                : a \in {frame_alloc(H)} })

\* unmap_one: the tracker is removed from data_frames (and dropped) before
\* the entry is cleared
unmap_one(H, pt, area, vpn) ==
    IF area.map_type = "Framed" /\ vpn \in DOMAIN area.data_frames
    THEN Only({ Only({ [ok |-> d.ok /\ u.ok, H |-> u.H,
                        area |-> [area EXCEPT !.data_frames =
                            [v \in DOMAIN area.data_frames \ {vpn} |-> area.data_frames[v]]]]
                       : u \in {PageTable_unmap(d.H, pt, vpn)} })
                : d \in {frame_dealloc(H, area.data_frames[vpn])} })
    ELSE Only({ [ok |-> u.ok, H |-> u.H, area |-> area]
                : u \in {PageTable_unmap(H, pt, vpn)} })

\* MapArea::map: map_one for every vpn the interval's iterator yields, in
\* ascending order (the interval [lo, hi) is walked left half first).
RECURSIVE MapRange(_, _, _, _, _)
MapRange(H, pt, area, lo, hi) ==
    IF lo >= hi
    THEN [ok |-> TRUE, H |-> H, pt |-> pt, area |-> area]
    ELSE IF hi - lo = 1
    THEN map_one(H, pt, area, lo)
    ELSE Only({ IF ~r.ok THEN r
                ELSE MapRange(r.H, r.pt, r.area, lo + ((hi - lo) \div 2), hi)
                : r \in {MapRange(H, pt, area, lo, lo + ((hi - lo) \div 2))} })

\* An end that forward_one never reaches (2^VPN_WIDTH) makes the iterator
\* wrap to page 0 and the loop run into a panic.
MapArea_map(H, pt, area) ==
    IF area.vpn_end >= 2 ^ VPN_WIDTH_SV39
    THEN [ok |-> FALSE, H |-> H, pt |-> pt, area |-> area]
    ELSE MapRange(H, pt, area, area.vpn_start, area.vpn_end)

RECURSIVE UnmapRange(_, _, _, _, _)
UnmapRange(H, pt, area, lo, hi) ==
    IF lo >= hi
    THEN [ok |-> TRUE, H |-> H, area |-> area]
    ELSE IF hi - lo = 1
    THEN unmap_one(H, pt, area, lo)
    ELSE Only({ IF ~r.ok THEN r
                ELSE UnmapRange(r.H, pt, r.area, lo + ((hi - lo) \div 2), hi)
                : r \in {UnmapRange(H, pt, area, lo, lo + ((hi - lo) \div 2))} })

MapArea_unmap(H, pt, area) ==
    IF area.vpn_end >= 2 ^ VPN_WIDTH_SV39
    THEN [ok |-> FALSE, H |-> H, area |-> area]
    ELSE UnmapRange(H, pt, area, area.vpn_start, area.vpn_end)

Min2(a, b) == IF a <= b THEN a ELSE b

\* copy_data: one page of data per iteration, to the start of the frame
\* current_vpn translates to; panics where translate gives None
RECURSIVE CopyFrom(_, _, _, _, _)
CopyFrom(m, pt, data, start, current_vpn) ==
    Only({ IF ~t.some
           THEN [ok |-> FALSE, mem |-> m]
           ELSE Only({ IF start + PAGE_SIZE >= Len(data)
                       THEN [ok |-> TRUE, mem |-> m2]
                       ELSE CopyFrom(m2, pt, data, start + PAGE_SIZE,
                                     forward_one(current_vpn))
                       : m2 \in {[m EXCEPT ![pte_ppn(t.bits)] =
                                    [i \in 0..(PAGE_SIZE - 1) |->
                                        IF i < Min2(Len(data), start + PAGE_SIZE) - start
                                        THEN data[start + i + 1] ELSE @[i]]]} })
           : t \in {translate(m, pt, current_vpn)} })

copy_data_unasserted(H, pt, area, data) ==
    Only({ [ok |-> c.ok, H |-> [H EXCEPT !.mem = c.mem]]
           : c \in {CopyFrom(H.mem, pt, data, 0, area.vpn_start)} })
copy_data(H, pt, area, data) ==
    IF area.map_type # "Framed"
    THEN [ok |-> FALSE, H |-> H]
    ELSE Only({ [ok |-> c.ok, H |-> [H EXCEPT !.mem = c.mem]]
                : c \in {CopyFrom(H.mem, pt, data, 0, area.vpn_start)} })

NoData == <<0 - 1>>

\* MemorySet::push(map_area, data)
push(H, ms, map_area, data) ==
    Only({ Only({ [ok |-> r.ok /\ c.ok, H |-> c.H,
                   ms |-> [page_table |-> r.pt, areas |-> Append(ms.areas, r.area)]]
                  : c \in {IF r.ok /\ data # NoData
                           THEN copy_data(r.H, r.pt, r.area, data)
                           ELSE [ok |-> r.ok, H |-> r.H]} })
           : r \in {MapArea_map(H, ms.page_table, map_area)} })

\* push(MapArea::new(..), data), the form every caller uses
push_new(H, ms, start_va, end_va, map_type, map_perm, data) ==
    IF ~MapArea_new(start_va, end_va, map_type, map_perm).ok
    THEN [ok |-> FALSE, H |-> H, ms |-> ms]
    ELSE push(H, ms, MapArea_new(start_va, end_va, map_type, map_perm).area, data)

insert_framed_area(H, ms, start_va, end_va, permission) ==
    push_new(H, ms, start_va, end_va, "Framed", permission, NoData)

new_bare(H) ==
    Only({ [ok |-> p.ok, H |-> p.H, ms |-> [page_table |-> p.pt, areas |-> <<>>]]
           : p \in {PageTable_new(H)} })

\* map_trampoline with the page made accessible to user mode
map_trampoline_user(H, ms) ==
    Only({ [ok |-> r.ok, H |-> r.H, ms |-> [ms EXCEPT !.page_table = r.pt]]
           : r \in {PageTable_map(H, ms.page_table, floor(VirtAddr_from(TRAMPOLINE)),
                                  floor(PhysAddr_from(strampoline)),
                                  MapPermission_R + MapPermission_X + MapPermission_U)} })

map_trampoline(H, ms) ==
    Only({ [ok |-> r.ok, H |-> r.H, ms |-> [ms EXCEPT !.page_table = r.pt]]
           : r \in {PageTable_map(H, ms.page_table, floor(VirtAddr_from(TRAMPOLINE)),
                                  floor(PhysAddr_from(strampoline)),
                                  MapPermission_R + MapPermission_X)} })

\* a chain of pushes: each step is <<start_va, end_va, map_type, map_perm, data>>
RECURSIVE PushAll(_, _, _, _)
PushAll(H, ms, steps, i) ==
    IF i > Len(steps)
    THEN [ok |-> TRUE, H |-> H, ms |-> ms]
    ELSE Only({ IF ~r.ok THEN r ELSE PushAll(r.H, r.ms, steps, i + 1)
                : r \in {push_new(H, ms, VirtAddr_from(steps[i][1]),
                                  VirtAddr_from(steps[i][2]), steps[i][3],
                                  steps[i][4], steps[i][5])} })

RW == MapPermission_R + MapPermission_W

\* the sections with .text mapped writable as well
KernelSections_text_writable ==
    << <<stext, etext, "Identical", RW + MapPermission_X, NoData>>,
       <<srodata, erodata, "Identical", MapPermission_R, NoData>>,
       <<sdata, edata, "Identical", RW, NoData>>,
       <<sbss_with_stack, ebss, "Identical", RW, NoData>>,
       <<ekernel, MEMORY_END, "Identical", RW, NoData>> >>
        \o [i \in 1..Len(MMIO) |->
               <<MMIO[i][1], MMIO[i][1] + MMIO[i][2], "Identical", RW, NoData>>]

KernelSections ==
    << <<stext, etext, "Identical", MapPermission_R + MapPermission_X, NoData>>,
       <<srodata, erodata, "Identical", MapPermission_R, NoData>>,
       <<sdata, edata, "Identical", RW, NoData>>,
       <<sbss_with_stack, ebss, "Identical", RW, NoData>>,
       <<ekernel, MEMORY_END, "Identical", RW, NoData>> >>
        \o [i \in 1..Len(MMIO) |->
               <<MMIO[i][1], MMIO[i][1] + MMIO[i][2], "Identical", RW, NoData>>]

new_kernel(H) ==
    Only({ IF ~t.ok
           THEN [ok |-> FALSE, H |-> H, ms |-> t.ms]
           ELSE PushAll(t.H, t.ms, KernelSections, 1)
           : t \in { Only({ IF ~b.ok THEN b ELSE map_trampoline(b.H, b.ms)
                            : b \in {new_bare(H)} }) } })

\* The trackers of a BTreeMap<VirtPageNum, FrameTracker> in key order
data_frames_values(area) ==
    LET keys == SelectSeq([i \in 1..(area.vpn_end - area.vpn_start) |->
                              area.vpn_start + i - 1],
                          LAMBDA v : v \in DOMAIN area.data_frames)
    IN [i \in 1..Len(keys) |-> area.data_frames[keys[i]]]

\* Vec<MapArea> going out of scope: the areas in index order, each dropping
\* its data_frames (MapArea has no Drop of its own: no entry is cleared)
RECURSIVE DropAreas(_, _, _)
DropAreas(H, areas, i) ==
    IF i > Len(areas)
    THEN [ok |-> TRUE, H |-> H]
    ELSE Only({ IF ~d.ok THEN d ELSE DropAreas(d.H, areas, i + 1)
                : d \in {DropFrames(H, data_frames_values(areas[i]), 1)} })

\* MemorySet going out of scope: its fields in declaration order,
\* page_table and then areas
MemorySet_drop_page_table_only(H, ms) == PageTable_drop(H, ms.page_table)
MemorySet_drop(H, ms) ==
    Only({ IF ~p.ok THEN p ELSE DropAreas(p.H, ms.areas, 1)
           : p \in {PageTable_drop(H, ms.page_table)} })

\* remap_test: the three assertions on the kernel's table (unwrap of a
\* missing entry fails like an assertion)
remap_test(m, ks) ==
    LET mid_text == translate(m, ks.page_table, floor(VirtAddr_from((stext + etext) \div 2)))
        mid_rodata == translate(m, ks.page_table,
                                floor(VirtAddr_from((srodata + erodata) \div 2)))
        mid_data == translate(m, ks.page_table, floor(VirtAddr_from((sdata + edata) \div 2)))
    IN /\ mid_text.some /\ ~HasFlag(pte_flags(mid_text.bits), PTEFlags_W)
       /\ mid_rodata.some /\ ~HasFlag(pte_flags(mid_rodata.bits), PTEFlags_W)
       /\ mid_data.some /\ ~HasFlag(pte_flags(mid_data.bits), PTEFlags_X)

\* ELF images as xmas_elf presents them: the entry point and the program
\* headers, each with the slice of the file image it loads (data).
Bytes(n) == [i \in 1..n |-> i]
\* get_app_data(i) is AppImages[i + 1].
AppImages ==
    << [entry |-> PAGE_SIZE,
        ph |-> << [type |-> "Load", vaddr |-> PAGE_SIZE, memsz |-> 2 * PAGE_SIZE + 1,
                   flags |-> {"R", "X"}, data |-> Bytes(PAGE_SIZE + 1)] >>],
       [entry |-> PAGE_SIZE + 1,
        ph |-> << [type |-> "Load", vaddr |-> PAGE_SIZE, memsz |-> PAGE_SIZE,
                   flags |-> {"R", "X"}, data |-> Bytes(PAGE_SIZE)],
                  [type |-> "Note", vaddr |-> 0, memsz |-> 0,
                   flags |-> {"R"}, data |-> <<>>],
                  [type |-> "Load", vaddr |-> 2 * PAGE_SIZE + 1, memsz |-> 2,
                   flags |-> {"R", "W"}, data |-> Bytes(1)] >>] >>
get_num_app == Len(AppImages)

\* from_elf's loop over the program headers
SegmentPerm(ph) ==
    MapPermission_U + (IF "R" \in ph.flags THEN MapPermission_R ELSE 0)
                    + (IF "W" \in ph.flags THEN MapPermission_W ELSE 0)
                    + (IF "X" \in ph.flags THEN MapPermission_X ELSE 0)

RECURSIVE LoadSegments(_, _, _, _, _)
LoadSegments(H, ms, phs, i, max_end_vpn) ==
    IF i > Len(phs)
    THEN [ok |-> TRUE, H |-> H, ms |-> ms, max_end_vpn |-> max_end_vpn]
    ELSE IF phs[i].type # "Load"
    THEN LoadSegments(H, ms, phs, i + 1, max_end_vpn)
    ELSE Only({ IF ~a.ok
                THEN [ok |-> FALSE, H |-> H, ms |-> ms, max_end_vpn |-> max_end_vpn]
                ELSE Only({ IF ~r.ok
                            THEN [ok |-> FALSE, H |-> H, ms |-> ms,
                                  max_end_vpn |-> max_end_vpn]
                            ELSE LoadSegments(r.H, r.ms, phs, i + 1, a.area.vpn_end)
                            : r \in {push(H, ms, a.area, phs[i].data)} })
                : a \in {MapArea_new(VirtAddr_from(phs[i].vaddr),
                                     VirtAddr_from((phs[i].vaddr + phs[i].memsz) % USIZE),
                                     "Framed", SegmentPerm(phs[i]))} })

\* the user stack above max_end_vpn and a guard page, then the trap context
UserStackBottom(max_end_vpn) ==
    (usize_from_VirtAddr(VirtAddr_from_vpn(max_end_vpn)) + PAGE_SIZE) % USIZE
UserStackTop(max_end_vpn) == (UserStackBottom(max_end_vpn) + USER_STACK_SIZE) % USIZE

from_elf(H, elf) ==
    Only({ IF ~s.ok
           THEN [ok |-> FALSE, H |-> H, ms |-> s.ms, user_sp |-> 0, entry_point |-> 0]
           ELSE Only({ [ok |-> r.ok, H |-> r.H, ms |-> r.ms,
                        user_sp |-> UserStackTop(s.max_end_vpn),
                        entry_point |-> elf.entry]
                       : r \in {PushAll(s.H, s.ms,
                                    << <<UserStackBottom(s.max_end_vpn),
                                         UserStackTop(s.max_end_vpn), "Framed",
                                         RW + MapPermission_U, NoData>>,
                                       <<TRAP_CONTEXT, TRAMPOLINE, "Framed", RW, NoData>> >>,
                                    1)} })
           : s \in { Only({ IF ~t.ok
                            THEN [ok |-> FALSE, H |-> H, ms |-> t.ms, max_end_vpn |-> 0]
                            ELSE LoadSegments(t.H, t.ms, elf.ph, 1, VirtPageNum_from(0))
                            : t \in { Only({ IF ~b.ok THEN b ELSE map_trampoline(b.H, b.ms)
                                             : b \in {new_bare(H)} }) } }) } })

\* The words of TrapContext::app_init_context that fit the scaled page:
\* x[2] (sp), sepc, kernel_satp, kernel_sp.
TrapContextWords(entry, sp, kernel_satp, kernel_sp) == <<sp, entry, kernel_satp, kernel_sp>>

\* TaskControlBlock::new(elf_data, app_id), given the kernel space ks
TaskControlBlock_new(H, ks, elf, app_id) ==
    Only({ Only({ Only({
        IF ~f.ok \/ ~t.some \/ ~k.ok
        THEN [ok |-> FALSE, H |-> H, ks |-> ks,
              tcb |-> [memory_set |-> f.ms, trap_cx_ppn |-> NoFrame, base_size |-> 0]]
        ELSE [ok |-> TRUE, ks |-> k.ms,
              H |-> [k.H EXCEPT !.mem[pte_ppn(t.bits)] =
                        [i \in 0..(PAGE_SIZE - 1) |->
                            IF i < Len(TrapContextWords(0, 0, 0, 0))
                            THEN TrapContextWords(f.entry_point, f.user_sp,
                                                  token(k.ms.page_table),
                                                  kernel_stack_position(app_id).top)[i + 1]
                            ELSE @[i]]],
              tcb |-> [memory_set |-> f.ms, trap_cx_ppn |-> pte_ppn(t.bits),
                       base_size |-> f.user_sp]]
        : k \in {IF f.ok
                 THEN insert_framed_area(f.H, ks,
                          VirtAddr_from(kernel_stack_position(app_id).bottom),
                          VirtAddr_from(kernel_stack_position(app_id).top), RW)
                 ELSE [ok |-> FALSE, H |-> H, ms |-> ks]} })
        : t \in {IF f.ok
                 THEN translate(f.H.mem, f.ms.page_table, floor(VirtAddr_from(TRAP_CONTEXT)))
                 ELSE [some |-> FALSE, bits |-> 0]} })
        : f \in {from_elf(H, elf)} })

\* ---- page_table.rs: translated_byte_buffer
\* The end of the slice pushed for a page: to the end of the frame when
\* end_va is page aligned.
slice_end_offset(end_va) == page_offset(end_va)
slice_end(end_va) ==
    IF page_offset(end_va) = 0 THEN PAGE_SIZE ELSE page_offset(end_va)

\* The while loop; a slice is [ppn, lo, hi], the bytes lo..hi-1 of frame ppn.
TbbEndVa(start, e) ==
    Min2(VirtAddr_from_vpn(forward_one(floor(VirtAddr_from(start)))), VirtAddr_from(e))

RECURSIVE TbbLoop(_, _, _, _, _)
TbbLoop(m, pt, start, e, v) ==
    IF ~(start < e)
    THEN [ok |-> TRUE, v |-> v]
    ELSE Only({ IF ~t.some \/ page_offset(VirtAddr_from(start)) > slice_end(TbbEndVa(start, e))
                THEN [ok |-> FALSE, v |-> v]
                ELSE TbbLoop(m, pt, usize_from_VirtAddr(TbbEndVa(start, e)), e,
                             Append(v, [ppn |-> pte_ppn(t.bits),
                                        lo |-> page_offset(VirtAddr_from(start)),
                                        hi |-> slice_end(TbbEndVa(start, e))]))
                : t \in {translate(m, pt, floor(VirtAddr_from(start)))} })

\* start + len overflows usize: a panic with overflow checks, a wrap without
translated_byte_buffer(m, satp, ptr, len, overflow_checks) ==
    IF ptr + len >= USIZE /\ overflow_checks
    THEN [ok |-> FALSE, v |-> <<>>]
    ELSE TbbLoop(m, from_token(satp), ptr, (ptr + len) % USIZE, <<>>)

\* ------------------------------------------------- address spaces: the actions

\* ------------------------------- syscall/fs.rs, syscall/process.rs, batch.rs

\* batch.rs: USER_STACK_SIZE is one page; the static USER_STACK is placed by
\* the linker (here at the start of .rodata); the application window is two
\* pages in the middle of RAM.
batch_USER_STACK_SIZE == PAGE_SIZE
USER_STACK_data == srodata
USER_STACK_get_sp == USER_STACK_data + batch_USER_STACK_SIZE
APP_BASE_ADDRESS == MEMORY_END \div 2
APP_SIZE_LIMIT == 2 * PAGE_SIZE

\* checkmem(addr, len): v is the bool returned; ok is FALSE where addr + len
\* overflows with overflow checks compiled in (a panic), and the sum wraps
\* otherwise.  && evaluates addr + len only after its left operand held.
checkmem(addr, len, overflow_checks) ==
    IF USER_STACK_get_sp - batch_USER_STACK_SIZE <= addr
    THEN IF addr + len >= USIZE /\ overflow_checks
         THEN [ok |-> FALSE, v |-> FALSE]
         ELSE IF USER_STACK_get_sp >= (addr + len) % USIZE
         THEN [ok |-> TRUE, v |-> TRUE]
         ELSE [ok |-> TRUE,
               v |-> APP_BASE_ADDRESS <= addr
                       /\ APP_BASE_ADDRESS + APP_SIZE_LIMIT >= (addr + len) % USIZE]
    ELSE [ok |-> TRUE, v |-> FALSE]

\* A load or store the kernel makes through a raw pointer goes through the
\* kernel's own page table (satp holds KERNEL_SPACE's token while a trap is
\* handled): the leaf entry of the page of address a, 0 where there is none.
KernelLeaf(m, kpt, a) ==
    Only({ IF (a < 2 ^ VA_WIDTH_SV39 \/ a >= USIZE - 2 ^ (VA_WIDTH_SV39 - 1))
              /\ t.some /\ is_valid(t.bits) /\ ~HasFlag(pte_flags(t.bits), PTEFlags_U)
           THEN t.bits ELSE 0
           : t \in {translate(m, kpt, floor(VirtAddr_from(a)))} })
\* The word a kernel load of address a reads: a cell of an allocator frame,
\* or 0 in the kernel image (USER_STACK is a zeroed static).  ok is FALSE
\* where the load faults (trap_from_kernel panics).
KernelLoad(m, kpt, a) ==
    Only({ IF ~HasFlag(pte_flags(e), PTEFlags_R)
           THEN [ok |-> FALSE, v |-> 0]
           ELSE [ok |-> TRUE,
                 v |-> IF pte_ppn(e) \in DOMAIN m
                       THEN m[pte_ppn(e)][page_offset(VirtAddr_from(a))] ELSE 0]
           : e \in {KernelLeaf(m, kpt, a)} })
\* A kernel store of word w to address a whose page has leaf entry e: memory
\* after it; a store into the kernel image or a device leaves the
\* allocator's frames as they are.
KernelStore(m, e, a, w) ==
    IF ~HasFlag(pte_flags(e), PTEFlags_W)
    THEN [ok |-> FALSE, mem |-> m]
    ELSE [ok |-> TRUE,
          mem |-> IF pte_ppn(e) \in DOMAIN m
                  THEN [m EXCEPT ![pte_ppn(e)][page_offset(VirtAddr_from(a))] = w]
                  ELSE m]

\* core::str::from_utf8 on cells: ASCII bytes are valid; a cell that is not
\* an ASCII byte is not (a lone byte above 0x7f is not valid UTF-8).
from_utf8_ok(bytes) == \A i \in 1..Len(bytes) : bytes[i] \in 0..127

\* sys_write(fd, buf, len): ret is the isize returned, out the bytes printed
\* from the buffer, msg the kernel's own message; ok is FALSE on a panic.
NoOutput == [ok |-> TRUE, ret |-> 0 - 1, out |-> <<>>, msg |-> ""]
sys_write(m, kpt, fd, buf, len, overflow_checks) ==
    Only({ IF ~c.ok
           THEN [NoOutput EXCEPT !.ok = FALSE]
           ELSE IF ~c.v
           THEN NoOutput
           ELSE IF fd # FD_STDOUT
           THEN [NoOutput EXCEPT !.msg = "Unsupported fd in sys_write!"]
           ELSE Only({ IF (\E i \in 1..len : ~slice[i].ok)
                          \/ ~from_utf8_ok([i \in 1..len |-> slice[i].v])
                       THEN [NoOutput EXCEPT !.ok = FALSE]
                       ELSE [ok |-> TRUE, ret |-> len,
                             out |-> [i \in 1..len |-> slice[i].v], msg |-> ""]
                       : slice \in {[i \in 1..len |-> KernelLoad(m, kpt, buf + i - 1)]} })
           : c \in {checkmem(buf, len, overflow_checks)} })

\* timer.rs: get_time_ms, get_time_us; CLOCK_FREQ comes from the board module
get_time_ms(time) == time \div (CLOCK_FREQ \div MSEC_PER_SEC)
get_time_us(time) == time \div (CLOCK_FREQ \div MICRO_PER_SEC)

\* sys_get_time(ts, _tz): ts.as_mut() is None for the null pointer only; the
\* two fields are stored through the pointer as the kernel sees it, sec in
\* the cell at ts and usec in the next one.  Both stores are translated by
\* the kernel's table as it is on entry (nothing flushes the TLB in between).
sys_get_time(m, kpt, ts, time) ==
    IF ts = 0
    THEN [ok |-> TRUE, ret |-> 0 - 1, mem |-> m]
    ELSE Only({ IF ~a.ok
                THEN [ok |-> FALSE, ret |-> 0, mem |-> m]
                ELSE Only({ IF ~b.ok THEN [ok |-> FALSE, ret |-> 0, mem |-> m]
                            ELSE [ok |-> TRUE, ret |-> 0, mem |-> b.mem]
                            : b \in {KernelStore(a.mem, KernelLeaf(m, kpt, (ts + 1) % USIZE),
                                                 (ts + 1) % USIZE,
                                                 get_time_us(time) % MICRO_PER_SEC)} })
                : a \in {KernelStore(m, KernelLeaf(m, kpt, ts), ts,
                                     get_time_us(time) \div MICRO_PER_SEC)} })

\* The leaf entry the hardware walk of page table pt finds for vpn: the bits
\* of a valid last-level entry, or 0 where the page is not mapped
Mapping(m, pt, vpn) ==
    Only({ IF t.some /\ is_valid(t.bits) THEN t.bits ELSE 0
           : t \in {translate(m, pt, vpn)} })

\* The caller's view of address a: the leaf entry its own page table holds
\* for the page of a, 0 where a is not a user page of the caller
CallerLeaf(a) ==
    Only({ IF a < USIZE /\ a = usize_from_VirtAddr(VirtAddr_from(a))
              /\ HasFlag(pte_flags(e), PTEFlags_U)
           THEN e ELSE 0
           : e \in {Mapping(mem, tcbs[1].memory_set.page_table, floor(VirtAddr_from(a)))} })
\* the frame and cell the caller's page table maps address a to
CallerLoc(a) == <<pte_ppn(CallerLeaf(a)), page_offset(VirtAddr_from(a))>>
Heap == [mem |-> mem, current |-> current, recycled |-> recycled]

\* RAM before the kernel touches it: every cell of the allocator's frames
\* holds a stale word (here one that reads as a valid page-table entry).
StalePage ==
    [i \in 0..(PAGE_SIZE - 1) |->
        PageTableEntry_new(floor(ekernel), PTEFlags_V + PTEFlags_R + PTEFlags_W)]

\* mm::init: init_frame_allocator, then KERNEL_SPACE (new_kernel)
BootHeap ==
    [mem |-> [p \in ceil(PhysAddr_from(ekernel))..(floor(PhysAddr_from(MEMORY_END)) - 1) |->
                 StalePage],
     current |-> ceil(PhysAddr_from(ekernel)),
     recycled |-> <<>>]

FrameInitMem ==
    /\ end = floor(PhysAddr_from(MEMORY_END))
    /\ init_start = ceil(PhysAddr_from(ekernel))
    /\ trackers = <<>>
    /\ alloc_ret = NoFrame
    /\ fa_state = "ok"

SchedOff(ph) ==
    /\ num_app = 1
    /\ task_status = <<>>
    /\ current_task = 0
    /\ phase = ph
    /\ found = NoTask
    /\ SchedIdle

InitMem ==
    /\ FrameInitMem
    /\ \E k \in {new_kernel(BootHeap)} :
           /\ k.ok
           /\ mem = k.H.mem
           /\ current = k.H.current
           /\ recycled = k.H.recycled
           /\ kernel_space = k.ms
    /\ tcbs = <<>>
    /\ mm_state = "ok"
    /\ mm_ops = 0
    /\ mm_event = "boot"
    /\ tbb_in = <<>>
    /\ tbb_out = <<>>
    /\ call_in = <<>>
    /\ call_out = <<>>
    /\ mtime = 0
    /\ sleep = <<>>
    /\ borrow = <<>>
    /\ waited = <<>>
    /\ SchedOff("mem")

\* The outcome of a handler on the heap, the kernel space and the tasks; a
\* panic halts the kernel in the state the handler was entered in.
Commit(ok, H, ks, ts, ev) ==
    /\ mm_event' = ev
    /\ IF ok
       THEN /\ mem' = H.mem
            /\ current' = H.current
            /\ recycled' = H.recycled
            /\ kernel_space' = ks
            /\ tcbs' = ts
            /\ mm_state' = "ok"
       ELSE /\ mm_state' = "panic"
            /\ UNCHANGED <<mem, current, recycled, kernel_space, tcbs>>
    /\ UNCHANGED <<end, trackers, init_start, alloc_ret, fa_state, tbb_in, tbb_out,
                   call_in, call_out, sleepVars, schedVars>>

\* TASK_MANAGER's loop body: tasks.push(TaskControlBlock::new(app data, i))
LoadTask ==
    /\ mm_state = "ok"
    /\ Len(tcbs) < get_num_app
    /\ \E r \in {TaskControlBlock_new(Heap, kernel_space, AppImages[Len(tcbs) + 1],
                                      Len(tcbs))} :
           Commit(r.ok, r.H, r.ks, Append(tcbs, r.tcb), "load")
    /\ UNCHANGED mm_ops

\* Address space s: 0 is KERNEL_SPACE, s >= 1 is tasks[s - 1].memory_set
Spaces == 0..Len(tcbs)
Space(s) == IF s = 0 THEN kernel_space ELSE tcbs[s].memory_set
WithSpace(s, ms) ==
    [ks |-> IF s = 0 THEN ms ELSE kernel_space,
     ts |-> IF s = 0 THEN tcbs ELSE [tcbs EXCEPT ![s].memory_set = ms]]

\* The areas offered to insert_framed_area: in the kernel the stack of the
\* next application, in a task the page above its user stack, alone or
\* together with the stack's last page (a conflict).
InsertCandidates(s) ==
    IF s = 0
    THEN {<<kernel_stack_position(get_num_app).bottom, kernel_stack_position(get_num_app).top, RW>>}
    ELSE {<<tcbs[s].base_size, tcbs[s].base_size + 1, RW + MapPermission_U>>,
          <<tcbs[s].base_size - 1, tcbs[s].base_size + 1, RW + MapPermission_U>>}

InsertFramedArea(s, c) ==
    /\ mm_state = "ok"
    /\ mm_ops < MaxMemOps
    /\ \E r \in {insert_framed_area(Heap, Space(s), VirtAddr_from(c[1]),
                                      VirtAddr_from(c[2]), c[3])} :
           Commit(r.ok, r.H, WithSpace(s, r.ms).ks, WithSpace(s, r.ms).ts, "insert")
    /\ mm_ops' = mm_ops + 1

\* MapArea::unmap of the i-th area of space s against its page table
UnmapArea(s, i) ==
    /\ mm_state = "ok"
    /\ mm_ops < MaxMemOps
    /\ i \in 1..Len(Space(s).areas)
    /\ \E r \in {MapArea_unmap(Heap, Space(s).page_table, Space(s).areas[i])} :
           Commit(r.ok, r.H,
                  WithSpace(s, [Space(s) EXCEPT !.areas[i] = r.area]).ks,
                  WithSpace(s, [Space(s) EXCEPT !.areas[i] = r.area]).ts, "unmap")
    /\ mm_ops' = mm_ops + 1

NextMem ==
    \/ LoadTask
    \/ \E s \in Spaces : \E c \in InsertCandidates(s) : InsertFramedArea(s, c)
    \/ \E s \in Spaces : \E i \in 1..Len(Space(s).areas) :
           /\ Space(s).areas[i].map_type = "Framed"
           /\ UnmapArea(s, i)

SpecMem == InitMem /\ [][NextMem]_vars

\* ------------------------------------------- translated_byte_buffer alone

\* The address space of one loaded task, with or without an area above its
\* stack, and a buffer (ptr, len) in or near one of its areas.
TbbOffsets == {0, 1, PAGE_SIZE - 1}
TbbLens == {0, 1, PAGE_SIZE - 1, PAGE_SIZE, PAGE_SIZE + 1, 2 * PAGE_SIZE,
            2 * PAGE_SIZE + 1, 3 * PAGE_SIZE}
TbbBases(ms) ==
    {usize_from_VirtAddr(VirtAddr_from_vpn(ms.areas[i].vpn_start)) : i \in 1..Len(ms.areas)}
        \cup {TRAMPOLINE}

\* An image loaded as the first task, grown by one area above its stack or not
TbbSpaces ==
    { Only({ IF grow THEN [H |-> g.H, ks |-> t.ks,
                           tcb |-> [t.tcb EXCEPT !.memory_set = g.ms]]
                     ELSE [H |-> t.H, ks |-> t.ks, tcb |-> t.tcb]
             : g \in {insert_framed_area(t.H, t.tcb.memory_set,
                                         VirtAddr_from(t.tcb.base_size),
                                         VirtAddr_from(t.tcb.base_size + 1),
                                         RW + MapPermission_U)} })
      : t \in {TaskControlBlock_new(k.H, k.ms, e, 0) :
                  k \in {new_kernel(BootHeap)}, e \in Range(AppImages)},
        grow \in BOOLEAN }

InitTbb ==
    /\ FrameInitMem
    /\ \E sp \in TbbSpaces :
           /\ mem = sp.H.mem
           /\ current = sp.H.current
           /\ recycled = sp.H.recycled
           /\ kernel_space = sp.ks
           /\ tcbs = <<sp.tcb>>
           /\ \E b \in TbbBases(sp.tcb.memory_set), o \in TbbOffsets, n \in TbbLens :
                  \E chk \in (IF b + o + n >= USIZE THEN BOOLEAN ELSE {FALSE}) :
                      tbb_in = [satp |-> token(sp.tcb.memory_set.page_table),
                                ptr |-> b + o, len |-> n, overflow_checks |-> chk]
    /\ mm_state = "ok"
    /\ mm_ops = 0
    /\ mm_event = "boot"
    /\ tbb_out = <<>>
    /\ call_in = <<>>
    /\ call_out = <<>>
    /\ mtime = 0
    /\ sleep = <<>>
    /\ borrow = <<>>
    /\ waited = <<>>
    /\ SchedOff("tbb")

ApplyTbb ==
    /\ tbb_out = <<>>
    /\ tbb_in # <<>>
    /\ tbb_out' = translated_byte_buffer(mem, tbb_in.satp, tbb_in.ptr, tbb_in.len,
                                         tbb_in.overflow_checks)
    /\ UNCHANGED <<mem, kernel_space, tcbs, mm_state, mm_ops, mm_event, tbb_in,
                   call_in, call_out, frameVars, sleepVars, schedVars>>

NextTbb == ApplyTbb

SpecTbb == InitTbb /\ [][NextTbb]_vars

\* ===================================================================== claims

Tasks == 0..(num_app - 1)
Count(s, x) == Cardinality({i \in 1..Len(s) : s[i] = x})
Min(S) == CHOOSE x \in S : \A y \in S : x <= y
ExitEvents == {"exit"} \cup FaultCauses

\* C1 (SpecFrame): after init(start, end) and any sequence of frame_alloc and
\* FrameTracker drops, every frame of [start, end) is in exactly one of the
\* unissued interval [current, end), the recycled list and the live trackers,
\* each at most once, and nothing else is in the list or held by a tracker.
C1_FramePartition ==
    /\ \A f \in init_start..(end - 1) :
           (IF f >= current THEN 1 ELSE 0) + Count(recycled, f) + Count(trackers, f) = 1
    /\ Range(recycled) \cup Range(trackers) \subseteq init_start..(end - 1)
    /\ init_start <= current /\ current <= end

C1_Witness ==
    /\ Len(recycled) >= 1
    /\ Len(trackers) >= 1
    /\ current < end
    /\ alloc_ret \in Range(trackers)
    /\ alloc_ret < current - 1

\* C2 (SpecTask): in every reachable state each task has exactly one status
\* of Ready, Running, Exited, and at most one task is Running.
C2_OneRunning ==
    /\ DOMAIN task_status = Tasks
    /\ \A t \in Tasks : task_status[t] \in TaskStatus
    /\ Cardinality({t \in Tasks : task_status[t] = "Running"}) <= 1

C2_Witness ==
    /\ last_event = "timer"
    /\ \E t \in Tasks : task_status[t] = "Running"
    /\ \E t \in Tasks : task_status[t] = "Ready"
    /\ \E t \in Tasks : task_status[t] = "Exited"

\* C3 (SpecFind): for any current index c and any status vector over N tasks,
\* find_next_task returns the Ready task first reached scanning c+1, ..., c+N
\* modulo N (c itself last), and none exactly when no task is Ready.
C3_FindNext ==
    phase = "found" =>
        LET ks == {k \in 1..num_app :
                       task_status[(current_task + k) % num_app] = "Ready"}
        IN /\ (found = NoTask) <=> (\A t \in Tasks : task_status[t] # "Ready")
           /\ ks # {} => found = (current_task + Min(ks)) % num_app

C3_Witness ==
    /\ phase = "found"
    /\ num_app = 3
    /\ found = current_task

\* C4 (SpecTask): a task's status changes only Ready -> Running (the task the
\* scheduler selects), Running -> Ready (yield or timer, the trapping task) or
\* Running -> Exited (exit or fault, the trapping task); an Exited task's
\* status never changes again.
C4_Transitions ==
    [][\A t \in Tasks :
          /\ task_status[t] = "Exited" => task_status'[t] = "Exited"
          /\ task_status[t] # task_status'[t] =>
                \/ /\ task_status[t] = "Ready" /\ task_status'[t] = "Running"
                   /\ t = current_task'
                \/ /\ task_status[t] = "Running" /\ task_status'[t] = "Ready"
                   /\ last_event' \in {"yield", "timer"} /\ t = last_task'
                \/ /\ task_status[t] = "Running" /\ task_status'[t] = "Exited"
                   /\ last_event' \in ExitEvents /\ t = last_task'
      ]_vars

C4_Witness ==
    /\ last_event = "yield"
    /\ phase = "user"
    /\ \E t \in Tasks : t # last_task /\ task_status[t] = "Exited"
    /\ task_status[current_task] = "Running"

\* C7 (SpecTask): with three tasks, run_first_task runs task 0, and while no
\* task has exited each yield by task i makes task (i + 1) mod 3 Running and
\* leaves i Ready.
C7_YieldOrder ==
    [][num_app = 3 =>
          /\ last_event' = "run_first" =>
                current_task' = 0 /\ task_status'[0] = "Running"
          /\ (last_event' = "yield" /\ \A t \in Tasks : task_status[t] # "Exited") =>
                /\ current_task' = (current_task + 1) % 3
                /\ task_status'[current_task'] = "Running"
                /\ task_status'[current_task] = "Ready"
                /\ phase' = "user"
      ]_vars

C7_Witness ==
    /\ num_app = 3
    /\ last_event = "yield"
    /\ last_task = 2
    /\ current_task = 0
    /\ \A t \in Tasks : task_status[t] # "Exited"

C9_FaultKillsOnlyOffender ==
    [][last_event' \in FaultCauses =>
          LET t == current_task IN
          /\ task_status'[t] = "Exited"
          /\ \A u \in Tasks \ {t} :
                \/ task_status'[u] = task_status[u]
                \/ /\ u = current_task'
                   /\ task_status[u] = "Ready"
                   /\ task_status'[u] = "Running"
          /\ (\E u \in Tasks : task_status[u] = "Ready") =>
                /\ phase' = "user"
                /\ task_status[current_task'] = "Ready"
                /\ task_status'[current_task'] = "Running"
                /\ \A k \in 1..num_app :
                      (current_task + k) % num_app = current_task' \/
                      k > Min({j \in 1..num_app :
                                   (current_task + j) % num_app = current_task'}) \/
                      task_status[(current_task + k) % num_app] # "Ready"
      ]_vars

C9_Witness ==
    /\ last_event \in FaultCauses
    /\ num_app = 3
    /\ phase = "user"
    /\ task_status[last_task] = "Exited"
    /\ \E u \in Tasks : task_status[u] = "Ready"

\* C10 (SpecTask): when the exiting or faulting task leaves no Ready task,
\* run_next_task shuts the machine down: no context switch happens, every
\* task is Exited, and from shutdown no step returns to a caller or a task.
C10_ShutdownWhenDone ==
    [][/\ (last_event' \in ExitEvents /\ \A u \in Tasks : task_status[u] # "Ready") =>
             /\ phase' = "shutdown"
             /\ current_task' = current_task
             /\ kcont' = kcont
             /\ last_resume' = "none"
             /\ \A u \in Tasks : task_status'[u] = "Exited"
       /\ phase = "shutdown" => phase' = "shutdown"
      ]_vars

C10_Witness ==
    /\ phase = "shutdown"
    /\ num_app = 3
    /\ last_event = "exit"

\* ---- helpers for the memory claims

\* The valid leaf entries reachable from a root: [vpn, bits]
ValidIdx(m, p) == {i \in 0..(NUM_PTE_PER_VIRT_PAGE - 1) : is_valid(m[p][i])}
LeavesL0(m, p0, hi) ==
    {[vpn |-> hi * NUM_PTE_PER_VIRT_PAGE + i0, bits |-> m[p0][i0]] : i0 \in ValidIdx(m, p0)}
LeavesL1(m, p1, i2) ==
    UNION {LeavesL0(m, pte_ppn(m[p1][i1]), i2 * NUM_PTE_PER_VIRT_PAGE + i1) :
               i1 \in ValidIdx(m, p1)}
Leaves(m, root) ==
    UNION {LeavesL1(m, pte_ppn(m[root][i2]), i2) : i2 \in ValidIdx(m, root)}

AllSpaces == {Space(s) : s \in Spaces}
Areas(ms) == {ms.areas[i] : i \in 1..Len(ms.areas)}

\* the Framed area of ms that holds the tracker of frame p under vpn
OwnedByArea(ms, vpn, p) ==
    \E a \in Areas(ms) :
        /\ a.map_type = "Framed"
        /\ vpn \in DOMAIN a.data_frames
        /\ a.data_frames[vpn] = p
\* identity-mapped by an Identical area of ms, or the trampoline page
IdentityMapped(ms, vpn, p) ==
    \/ /\ p = vpn
       /\ \E a \in Areas(ms) :
              a.map_type = "Identical" /\ a.vpn_start <= vpn /\ vpn < a.vpn_end
    \/ /\ vpn = floor(VirtAddr_from(TRAMPOLINE))
       /\ p = floor(PhysAddr_from(strampoline))
\* returned to the allocator by a dealloc and not issued again
Returned(p) == p \in Range(recycled)

\* the user pages of the buffer (ptr, len) under the page table of satp
TbbEntry(a) == translate(mem, from_token(tbb_in.satp), floor(VirtAddr_from(a)))
UserPage(a) ==
    /\ a < USIZE
    /\ TbbEntry(a).some
    /\ is_valid(TbbEntry(a).bits)
    /\ HasFlag(pte_flags(TbbEntry(a).bits), PTEFlags_U)
UserRange == \A i \in 0..(tbb_in.len - 1) : UserPage(tbb_in.ptr + i)
\* the frame and offset the page table maps address a to
Loc(a) == <<pte_ppn(TbbEntry(a).bits), page_offset(VirtAddr_from(a))>>
SliceLocs(sl) == [k \in 1..(sl.hi - sl.lo) |-> <<sl.ppn, sl.lo + k - 1>>]
RECURSIVE Flatten(_)
Flatten(v) == IF v = <<>> THEN <<>> ELSE SliceLocs(Head(v)) \o Flatten(Tail(v))

\* C5 (SpecTbb): for a buffer whose pages are all valid user pages of the
\* page table, translated_byte_buffer returns one non-empty slice per page
\* touched, in ascending page order, and the concatenated slices are byte
\* for byte the locations (frame, offset) the page table maps ptr, ptr+1,
\* ..., ptr+len-1 to, so their lengths sum to len.
C5_TranslatedBuffer ==
    (tbb_out # <<>> /\ UserRange) =>
        /\ tbb_out.ok
        /\ Flatten(tbb_out.v) = [i \in 1..tbb_in.len |-> Loc(tbb_in.ptr + i - 1)]
        /\ Len(tbb_out.v) =
               Cardinality({floor(VirtAddr_from(tbb_in.ptr + i)) : i \in 0..(tbb_in.len - 1)})
        /\ \A k \in 1..Len(tbb_out.v) :
               /\ tbb_out.v[k].lo < tbb_out.v[k].hi
               /\ tbb_out.v[k].ppn =
                      Loc((floor(tbb_in.ptr) + k - 1) * PAGE_SIZE)[1]

\* a buffer that starts mid-page, spans three pages and ends on a boundary
C5_Witness ==
    /\ tbb_out # <<>>
    /\ UserRange
    /\ page_offset(tbb_in.ptr) # 0
    /\ page_offset(tbb_in.ptr + tbb_in.len) = 0
    /\ Len(tbb_out.v) >= 3

\* C6 as stated (SpecMem): every valid leaf entry of every address space
\* points to a frame owned under the same vpn by a Framed area of that
\* space, or is identity-mapped kernel memory or the trampoline; and no
\* valid leaf entry points to a frame returned to the allocator.
C6_AsStated ==
    \A ms \in AllSpaces : \A l \in Leaves(mem, ms.page_table.root_ppn) :
        /\ \/ OwnedByArea(ms, l.vpn, pte_ppn(l.bits))
           \/ IdentityMapped(ms, l.vpn, pte_ppn(l.bits))
        /\ ~Returned(pte_ppn(l.bits))

\* C6 (SpecMem), amended: every valid leaf entry of every address space
\* either points to a frame owned under the same vpn by a Framed area of
\* that space, and that frame is issued and not returned to the allocator,
\* or is identity-mapped kernel memory or the trampoline page.
C6_LeafOwnership ==
    \A ms \in AllSpaces : \A l \in Leaves(mem, ms.page_table.root_ppn) :
        \/ /\ OwnedByArea(ms, l.vpn, pte_ppn(l.bits))
           /\ ~Returned(pte_ppn(l.bits))
           /\ pte_ppn(l.bits) < current
        \/ IdentityMapped(ms, l.vpn, pte_ppn(l.bits))

\* an area was unmapped and another inserted afterwards, with a task loaded
C6_Witness ==
    /\ mm_state = "ok"
    /\ mm_event = "insert"
    /\ Len(tcbs) >= 1
    /\ recycled # <<>>
    /\ \E ms \in AllSpaces : \E a \in Areas(ms) :
           a.map_type = "Framed" /\ a.vpn_start < a.vpn_end /\ DOMAIN a.data_frames = {}

\* ------------------------------------ frame_alloc / frame_dealloc on RAM

\* The allocator over up to MaxFrames frames of stale RAM above the kernel
InitPool ==
    /\ \E k \in 1..MaxFrames :
           /\ end = ceil(PhysAddr_from(ekernel)) + k
           /\ mem = [p \in ceil(PhysAddr_from(ekernel))..(ceil(PhysAddr_from(ekernel)) + k - 1)
                        |-> StalePage]
    /\ current = ceil(PhysAddr_from(ekernel))
    /\ init_start = ceil(PhysAddr_from(ekernel))
    /\ recycled = <<>>
    /\ trackers = <<>>
    /\ alloc_ret = NoFrame
    /\ fa_state = "ok"
    /\ kernel_space = <<>>
    /\ tcbs = <<>>
    /\ mm_state = "off"
    /\ mm_ops = 0
    /\ mm_event = "off"
    /\ tbb_in = <<>>
    /\ tbb_out = <<>>
    /\ call_in = <<>>
    /\ call_out = <<>>
    /\ mtime = 0
    /\ sleep = <<>>
    /\ borrow = <<>>
    /\ waited = <<>>
    /\ SchedOff("pool")

\* frame_alloc; call_out keeps what the frame held before the call
PoolAlloc ==
    /\ fa_state = "ok"
    /\ \E r \in {frame_alloc(Heap)} :
           /\ mem' = r.H.mem
           /\ current' = r.H.current
           /\ recycled' = r.H.recycled
           /\ alloc_ret' = r.ppn
           /\ trackers' = IF r.ppn = NoFrame THEN trackers ELSE Append(trackers, r.ppn)
           /\ call_in' = [op |-> "frame_alloc", ppn |-> NoFrame]
           /\ call_out' = [ppn |-> r.ppn,
                           before |-> IF r.ppn = NoFrame THEN <<>> ELSE mem[r.ppn]]
    /\ UNCHANGED <<end, init_start, fa_state, kernel_space, tcbs, mm_state, mm_ops,
                   mm_event, tbb_in, tbb_out, sleepVars, schedVars>>

\* The owner of the i-th tracker stores a byte in the first or last cell of
\* its frame (ppn.get_bytes_array()[c] = 1)
PoolWrite(i, c) ==
    /\ fa_state = "ok"
    /\ i \in 1..Len(trackers)
    /\ mem[trackers[i]][c] # 1
    /\ mem' = [mem EXCEPT ![trackers[i]][c] = 1]
    /\ call_in' = [op |-> "write", ppn |-> trackers[i]]
    /\ call_out' = <<>>
    /\ UNCHANGED <<frameVars, kernel_space, tcbs, mm_state, mm_ops, mm_event, tbb_in,
                   tbb_out, sleepVars, schedVars>>

\* A FrameTracker for frame p is dropped: the tracker frame_alloc issued for
\* p if one is held, otherwise a tracker built around p by its public field
\* (FrameTracker { ppn: p }).  Drop calls frame_dealloc(p).
PoolDrop(p) ==
    /\ fa_state = "ok"
    /\ p \in init_start..end
    /\ trackers' = IF \E i \in 1..Len(trackers) : trackers[i] = p
                   THEN RemoveAt(trackers, CHOOSE i \in 1..Len(trackers) : trackers[i] = p)
                   ELSE trackers
    /\ \E r \in {frame_dealloc(Heap, p)} :
           /\ recycled' = r.H.recycled
           /\ fa_state' = IF r.ok THEN "ok" ELSE "panic"
           /\ call_out' = [ok |-> r.ok]
    /\ call_in' = [op |-> "frame_dealloc", ppn |-> p]
    /\ UNCHANGED <<mem, current, end, init_start, alloc_ret, kernel_space, tcbs, mm_state,
                   mm_ops, mm_event, tbb_in, tbb_out, sleepVars, schedVars>>

NextPool ==
    \/ PoolAlloc
    \/ \E i \in 1..Len(trackers) : \E c \in {0, PAGE_SIZE - 1} : PoolWrite(i, c)
    \/ \E p \in init_start..end : PoolDrop(p)

SpecPool == InitPool /\ [][NextPool]_vars

\* --------------------------- one kernel operation on a loaded address space

\* The page numbers the page-table operations are applied to: the first and
\* last page of every area of ms, the page after it, page 0, the last page
\* and a page under the second entry of the root table.
CallVpns(ms) ==
    UNION {{ms.areas[i].vpn_start, ms.areas[i].vpn_end - 1, ms.areas[i].vpn_end}
               : i \in 1..Len(ms.areas)}
        \cup {0, 2 ^ VPN_WIDTH_SV39 - 1, NUM_PTE_PER_VIRT_PAGE * NUM_PTE_PER_VIRT_PAGE}

\* PageTable::map / unmap / translate calls on the kernel's table (space 0)
\* or the task's (space 1)
PageTableCalls(ks, tcb) ==
    UNION {    {[op |-> "map", space |-> sp[1], vpn |-> v, ppn |-> p, flags |-> f]
                   : v \in CallVpns(sp[2]), p \in {0, end - 1},
                     f \in {PTEFlags_R, PTEFlags_R + PTEFlags_W + PTEFlags_U}}
          \cup {[op |-> "unmap", space |-> sp[1], vpn |-> v] : v \in CallVpns(sp[2])}
          \cup {[op |-> "translate", space |-> sp[1], vpn |-> v] : v \in CallVpns(sp[2])}
          \cup {[op |-> "from_token", space |-> sp[1], vpn |-> v] : v \in CallVpns(sp[2])}
          \cup {[op |-> "drop", space |-> sp[1]]}
          : sp \in {<<0, ks>>, <<1, tcb.memory_set>>} }

\* The buffers handed to the system calls: in or next to an area of the
\* caller, straddling either end of its stack, null, in checkmem's two
\* windows, and at the top of the address space.
CallPtrs(tcb) ==
    {b + o : b \in TbbBases(tcb.memory_set), o \in TbbOffsets}
        \cup {0, tcb.base_size - 1, tcb.base_size - USER_STACK_SIZE - 1,
              USER_STACK_data, APP_BASE_ADDRESS, APP_BASE_ADDRESS + PAGE_SIZE,
              APP_BASE_ADDRESS + APP_SIZE_LIMIT - 1}
\* ELF images handed to from_elf: the linked applications, and two whose
\* PT_LOAD headers are not in ascending address order, and one-segment
\* images with every combination of the segment flags R, W, X
ElfInputs ==
    Range(AppImages) \cup
    { [entry |-> PAGE_SIZE,
       ph |-> << [type |-> "Load", vaddr |-> PAGE_SIZE, memsz |-> PAGE_SIZE,
                  flags |-> f, data |-> Bytes(2)] >>]
      : f \in SUBSET {"R", "W", "X"} } \cup
    { [entry |-> PAGE_SIZE,
       ph |-> << [type |-> "Load", vaddr |-> hi * PAGE_SIZE, memsz |-> PAGE_SIZE,
                  flags |-> {"R", "W"}, data |-> Bytes(1)],
                 [type |-> "Load", vaddr |-> PAGE_SIZE, memsz |-> PAGE_SIZE,
                  flags |-> {"R", "X"}, data |-> Bytes(PAGE_SIZE)] >>]
      : hi \in {3, 6} }
ElfCalls == {[op |-> "from_elf", space |-> 1, elf |-> e] : e \in ElfInputs}

\* push(MapArea::new(..), Some(data)) on the task's space: areas of 0 to 2
\* pages at a free address, data that fits the area
PushVpn == NUM_PTE_PER_VIRT_PAGE * NUM_PTE_PER_VIRT_PAGE
PushCalls ==
    UNION {{[op |-> "push", space |-> 1, start_va |-> PushVpn * PAGE_SIZE,
             end_va |-> (PushVpn + n) * PAGE_SIZE, map_type |-> ty, data |-> Bytes(len)]
               : ty \in {"Framed", "Identical"},
                 len \in {l \in {0, 1, PAGE_SIZE, PAGE_SIZE + 1, 2 * PAGE_SIZE}
                              : l <= n * PAGE_SIZE}}
           : n \in 0..2}

\* sys_write and sys_get_time as the task (space 1) calls them
SysCalls(tcb) ==
    UNION {{[op |-> "sys_write", space |-> 1, fd |-> fd, buf |-> b, len |-> n,
             overflow_checks |-> chk]
               : chk \in (IF b + n >= USIZE THEN BOOLEAN ELSE {FALSE})}
           : fd \in {0, FD_STDOUT, 2}, b \in CallPtrs(tcb), n \in {0, 1, 2, PAGE_SIZE + 1}}
        \cup {[op |-> "sys_get_time", space |-> 1, ts |-> b, time |-> t]
                  : b \in CallPtrs(tcb), t \in {0, 3 * CLOCK_FREQ + 4567890}}

InitCall ==
    /\ FrameInitMem
    /\ \E sp \in TbbSpaces :
           /\ mem = sp.H.mem
           /\ current = sp.H.current
           /\ recycled = sp.H.recycled
           /\ kernel_space = sp.ks
           /\ tcbs = <<sp.tcb>>
           /\ call_in \in PageTableCalls(sp.ks, sp.tcb) \cup SysCalls(sp.tcb)
                             \cup ElfCalls \cup PushCalls
    /\ mm_state = "ok"
    /\ mm_ops = 0
    /\ mm_event = "boot"
    /\ tbb_in = <<>>
    /\ tbb_out = <<>>
    /\ call_out = <<>>
    /\ mtime = 0
    /\ sleep = <<>>
    /\ borrow = <<>>
    /\ waited = <<>>
    /\ SchedOff("call")

\* The page table the call is made on
CallTable == Space(call_in.space).page_table

\* The state a call on the page table of call_in.space returns in, or the
\* halt of the kernel where it panicked
CommitCall(ok, H, pt) ==
    /\ IF ok
       THEN /\ mem' = H.mem
            /\ current' = H.current
            /\ recycled' = H.recycled
            /\ kernel_space' =
                   WithSpace(call_in.space,
                             [Space(call_in.space) EXCEPT !.page_table = pt]).ks
            /\ tcbs' =
                   WithSpace(call_in.space,
                             [Space(call_in.space) EXCEPT !.page_table = pt]).ts
            /\ mm_state' = "ok"
       ELSE /\ mm_state' = "panic"
            /\ UNCHANGED <<mem, current, recycled, kernel_space, tcbs>>
    /\ UNCHANGED <<end, trackers, init_start, alloc_ret, fa_state, mm_ops, mm_event,
                   tbb_in, tbb_out, call_in, sleepVars, schedVars>>

ApplyMap ==
    /\ call_out = <<>>
    /\ call_in.op = "map"
    /\ \E r \in {PageTable_map(Heap, CallTable, call_in.vpn, call_in.ppn, call_in.flags)} :
           /\ call_out' = [ok |-> r.ok]
           /\ CommitCall(r.ok, r.H, r.pt)

ApplyUnmap ==
    /\ call_out = <<>>
    /\ call_in.op = "unmap"
    /\ \E r \in {PageTable_unmap(Heap, CallTable, call_in.vpn)} :
           /\ call_out' = [ok |-> r.ok]
           /\ CommitCall(r.ok, r.H, CallTable)

ApplyTranslate ==
    /\ call_out = <<>>
    /\ call_in.op = "translate"
    /\ call_out' = translate(mem, CallTable, call_in.vpn)
    /\ CommitCall(TRUE, Heap, CallTable)

\* token() of the table, from_token() of it, one translate on the view, and
\* the view going out of scope (as in translated_byte_buffer)
ApplyFromToken ==
    /\ call_out = <<>>
    /\ call_in.op = "from_token"
    /\ \E view \in {from_token(token(CallTable))} :
       \E d \in {PageTable_drop(Heap, view)} :
           /\ call_out' = [ok |-> d.ok, satp |-> token(CallTable), view |-> view,
                           pte |-> translate(mem, view, call_in.vpn)]
           /\ CommitCall(d.ok, d.H, CallTable)

\* The address space goes out of scope (as the memory_set field of a
\* TaskControlBlock that is dropped)
ApplyDrop ==
    /\ call_out = <<>>
    /\ call_in.op = "drop"
    /\ \E d \in {MemorySet_drop(Heap, Space(call_in.space))} :
           /\ call_out' = [ok |-> d.ok]
           /\ CommitCall(d.ok, d.H, CallTable)

\* MemorySet::from_elf(elf_data): the address space built, beside the
\* spaces that exist
ApplyFromElf ==
    /\ call_out = <<>>
    /\ call_in.op = "from_elf"
    /\ \E r \in {from_elf(Heap, call_in.elf)} :
           /\ call_out' = [ok |-> r.ok, ms |-> r.ms, user_sp |-> r.user_sp,
                           entry_point |-> r.entry_point]
           /\ CommitCall(r.ok, r.H, CallTable)

\* memory_set.push(MapArea::new(start_va, end_va, map_type, R | W | U), Some(data))
ApplyPush ==
    /\ call_out = <<>>
    /\ call_in.op = "push"
    /\ \E r \in {push_new(Heap, Space(call_in.space), VirtAddr_from(call_in.start_va),
                           VirtAddr_from(call_in.end_va), call_in.map_type,
                           RW + MapPermission_U, call_in.data)} :
           /\ call_out' = [ok |-> r.ok, ms |-> r.ms]
           /\ CommitCall(r.ok, r.H, r.ms.page_table)

\* syscall(SYSCALL_WRITE, args) from trap_handler, the kernel's table active
ApplySysWrite ==
    /\ call_out = <<>>
    /\ call_in.op = "sys_write"
    /\ \E r \in {sys_write(mem, kernel_space.page_table, call_in.fd, call_in.buf,
                            call_in.len, call_in.overflow_checks)} :
           /\ call_out' = r
           /\ CommitCall(r.ok, Heap, CallTable)

\* syscall(SYSCALL_GETTIMEOFDAY, args) from trap_handler
ApplySysGetTime ==
    /\ call_out = <<>>
    /\ call_in.op = "sys_get_time"
    /\ \E r \in {sys_get_time(mem, kernel_space.page_table, call_in.ts, call_in.time)} :
           /\ call_out' = [ok |-> r.ok, ret |-> r.ret]
           /\ CommitCall(r.ok, [Heap EXCEPT !.mem = r.mem], CallTable)

NextCall ==
    \/ ApplyMap
    \/ ApplyUnmap
    \/ ApplyTranslate
    \/ ApplyFromToken
    \/ ApplyDrop
    \/ ApplyFromElf
    \/ ApplyPush
    \/ ApplySysWrite
    \/ ApplySysGetTime

SpecCall == InitCall /\ [][NextCall]_vars

\* ------------------------------------------------- 03sleep under the kernel

\* user_lib::get_time's result from what sys_get_time returned and the
\* TimeVal the caller then holds
get_time(ret, tv) ==
    IF ret = 0 THEN (tv.sec % (2 ^ 16)) * 1000 + tv.usec \div 1000 ELSE 0 - 1

\* get_time's local TimeVal: the two words below the top of the user stack
TimeValPtr == tcbs[1].base_size - 2

\* One call of user_lib::get_time by the task: TimeVal::new() clears the two
\* words in the task's own frame, sys_get_time runs in the kernel, and the
\* task reads its TimeVal back.
UserGetTime ==
    Only({ Only({ [ok |-> r.ok, mem |-> r.mem,
                   now |-> get_time(r.ret,
                              [sec |-> r.mem[CallerLoc(TimeValPtr)[1]][CallerLoc(TimeValPtr)[2]],
                               usec |-> r.mem[CallerLoc(TimeValPtr + 1)[1]]
                                             [CallerLoc(TimeValPtr + 1)[2]]])]
                  : r \in {sys_get_time(m0, kernel_space.page_table, TimeValPtr, mtime)} })
           : m0 \in {[mem EXCEPT ![CallerLoc(TimeValPtr)[1]][CallerLoc(TimeValPtr)[2]] = 0,
                                 ![CallerLoc(TimeValPtr + 1)[1]][CallerLoc(TimeValPtr + 1)[2]] = 0]} })

\* The task is loaded next to another one that yields whenever it runs
InitSleep ==
    /\ FrameInitMem
    /\ \E sp \in TbbSpaces :
           /\ mem = sp.H.mem
           /\ current = sp.H.current
           /\ recycled = sp.H.recycled
           /\ kernel_space = sp.ks
           /\ tcbs = <<sp.tcb>>
    /\ mm_state = "ok"
    /\ mm_ops = 0
    /\ mm_event = "boot"
    /\ tbb_in = <<>>
    /\ tbb_out = <<>>
    /\ call_in = <<>>
    /\ call_out = <<>>
    /\ mtime \in {0, CLOCK_FREQ \div 2}
    /\ \E first \in {"sleeper", "other"} :
           sleep = [pc |-> "start", running |-> first, started |-> 0, t0 |-> 0, now |-> 0]
    /\ borrow = <<>>
    /\ waited = <<>>
    /\ SchedOff("sleep")

\* What a step of the task leaves: memory after its get_time call, or the
\* halted kernel where sys_get_time faulted
SleepCommit(g, next) ==
    /\ IF g.ok
       THEN /\ mem' = g.mem
            /\ sleep' = next
            /\ mm_state' = "ok"
       ELSE /\ mm_state' = "panic"
            /\ UNCHANGED <<mem, sleep>>
    /\ UNCHANGED <<kernel_space, tcbs, mm_ops, mm_event, tbb_in, tbb_out, call_in,
                   call_out, mtime, borrow, waited, frameVars, schedVars>>

\* let current_timer = get_time(); let wait_for = current_timer + 3000;
SleepStart ==
    /\ mm_state = "ok"
    /\ sleep.running = "sleeper"
    /\ sleep.pc = "start"
    /\ \E g \in {UserGetTime} :
           SleepCommit(g, [sleep EXCEPT !.pc = "loop", !.started = mtime,
                                        !.t0 = g.now, !.now = g.now])

\* while get_time() < wait_for { yield_(); }  println!(..)
SleepLoop ==
    /\ mm_state = "ok"
    /\ sleep.running = "sleeper"
    /\ sleep.pc = "loop"
    /\ \E g \in {UserGetTime} :
           SleepCommit(g, IF g.now < sleep.t0 + 3000
                          THEN [sleep EXCEPT !.running = "other", !.now = g.now]
                          ELSE [sleep EXCEPT !.pc = "done", !.running = "other",
                                             !.now = g.now])

\* The other task reaches a suspension point and the sleeper is next
OtherYield ==
    /\ mm_state = "ok"
    /\ sleep.running = "other"
    /\ sleep.pc # "done"
    /\ sleep' = [sleep EXCEPT !.running = "sleeper"]
    /\ UNCHANGED <<mem, kernel_space, tcbs, mm_state, mm_ops, mm_event, tbb_in, tbb_out,
                   call_in, call_out, mtime, borrow, waited, frameVars, schedVars>>

\* Half a second passes on the time CSR
ClockTick ==
    /\ mm_state = "ok"
    /\ mtime < MaxSleepSecs * CLOCK_FREQ
    /\ mtime' = mtime + CLOCK_FREQ \div 2
    /\ UNCHANGED <<mem, kernel_space, tcbs, mm_state, mm_ops, mm_event, tbb_in, tbb_out,
                   call_in, call_out, sleep, borrow, waited, frameVars, schedVars>>

NextSleep ==
    \/ SleepStart
    \/ SleepLoop
    \/ OtherYield
    \/ ClockTick

\* The clock advances, the other task keeps yielding, and a task that is
\* scheduled runs.
SpecSleep ==
    /\ InitSleep
    /\ [][NextSleep]_vars
    /\ WF_vars(SleepStart)
    /\ WF_vars(SleepLoop)
    /\ WF_vars(OtherYield)
    /\ WF_vars(ClockTick)

\* ------------------------------------------------------- frame allocator

\* The number of times frame p occurs in the sequence s
Occurrences(s, p) == Cardinality({i \in 1..Len(s) : s[i] = p})

\* C15 (SpecFrame): a frame_alloc step (the only step that does not drop a
\* tracker) returns a frame taken out of recycled and leaves current alone
\* when recycled is non-empty; otherwise, when current < end, it returns
\* frame number current and adds exactly one to current; otherwise it
\* returns none and changes nothing of the allocator.
C15_AllocOrder ==
    [][ Len(trackers') >= Len(trackers) =>
          IF Len(recycled) > 0
          THEN /\ alloc_ret' \in Range(recycled)
               /\ current' = current
               /\ Len(recycled') = Len(recycled) - 1
               /\ \A p \in Range(recycled) :
                      Occurrences(recycled', p) =
                          Occurrences(recycled, p) - (IF p = alloc_ret' THEN 1 ELSE 0)
               /\ trackers' = Append(trackers, alloc_ret')
          ELSE IF current < end
          THEN /\ alloc_ret' = current
               /\ current' = current + 1
               /\ recycled' = recycled
               /\ trackers' = Append(trackers, current)
          ELSE /\ alloc_ret' = NoFrame
               /\ UNCHANGED <<current, end, recycled, trackers>> ]_vars

\* A recycled frame was handed out while unissued frames remained
C15_Witness ==
    /\ fa_state = "ok"
    /\ alloc_ret # NoFrame
    /\ alloc_ret < current - 1
    /\ alloc_ret \in Range(trackers)
    /\ current < end

\* C16 (SpecPool): the frame a frame_alloc step hands out holds zero in all
\* PAGE_SIZE cells when the call returns, whatever it held before the call
\* (stale RAM, or what the previous owner of a recycled frame stored).
C16_ZeroedOnAlloc ==
    [][ (call_in'.op = "frame_alloc" /\ call_out'.ppn # NoFrame) =>
            /\ DOMAIN mem'[call_out'.ppn] = 0..(PAGE_SIZE - 1)
            /\ \A c \in 0..(PAGE_SIZE - 1) : mem'[call_out'.ppn][c] = 0 ]_vars

\* A recycled frame whose previous owner stored into it was handed out again
C16_Witness ==
    /\ call_in # <<>>
    /\ call_in.op = "frame_alloc"
    /\ call_out.ppn # NoFrame
    /\ call_out.ppn < current - 1
    /\ \E c \in 0..(PAGE_SIZE - 1) : call_out.before[c] = 1
    /\ mem[call_out.ppn] = ZeroPage

\* C17 (SpecPool): frame_dealloc(p) of a frame that is in recycled, or that
\* was never issued (p >= current), panics and leaves recycled as it was;
\* of an issued frame that is not in recycled it appends p to recycled, where
\* p then occurs exactly once.
C17_DeallocChecked ==
    [][ call_in'.op = "frame_dealloc" =>
          IF call_in'.ppn >= current \/ call_in'.ppn \in Range(recycled)
          THEN /\ fa_state' = "panic"
               /\ recycled' = recycled
               /\ current' = current
          ELSE /\ fa_state' = "ok"
               /\ recycled' = Append(recycled, call_in'.ppn)
               /\ Occurrences(recycled', call_in'.ppn) = 1
               /\ current' = current ]_vars

\* A frame already in recycled was released again and the call panicked
C17_Witness ==
    /\ call_in # <<>>
    /\ call_in.op = "frame_dealloc"
    /\ fa_state = "panic"
    /\ call_in.ppn < current
    /\ Occurrences(recycled, call_in.ppn) = 1

\* ------------------------------------------------------------ page table

AllVpns == 0..(2 ^ VPN_WIDTH_SV39 - 1)
C19_Unmap ==
    [][ (call_in.op = "unmap" /\ call_out = <<>> /\ call_out' # <<>>) =>
          IF Mapping(mem, CallTable, call_in.vpn) # 0
          THEN /\ call_out'.ok
               /\ translate(mem', CallTable', call_in.vpn) =
                      [some |-> TRUE, bits |-> PageTableEntry_empty]
               /\ \A v \in AllVpns \ {call_in.vpn} :
                      translate(mem', CallTable', v) = translate(mem, CallTable, v)
               /\ CallTable'.frames = CallTable.frames
               /\ CallTable'.root_ppn = CallTable.root_ppn
          ELSE /\ ~call_out'.ok
               /\ mm_state' = "panic"
               /\ mem' = mem
               /\ CallTable' = CallTable ]_vars

\* unmap returned after clearing the valid leaf entry of a user page
C19_Witness ==
    /\ call_in # <<>>
    /\ call_in.op = "unmap"
    /\ call_in.space = 1
    /\ call_out # <<>>
    /\ call_out.ok
    /\ translate(mem, CallTable, call_in.vpn) = [some |-> TRUE, bits |-> PageTableEntry_empty]
    /\ \E v \in AllVpns : Mapping(mem, CallTable, v) # 0

\* C20 (SpecCall): translate(vpn) is none for every vpn without a valid leaf
\* entry, whether an interior entry on its path is invalid or its last-level
\* entry has V = 0, and a copy of the leaf entry otherwise.
C20_TranslateNone ==
    (call_in # <<>> /\ call_in.op = "translate" /\ call_out # <<>>) =>
        IF Mapping(mem, CallTable, call_in.vpn) = 0
        THEN ~call_out.some
        ELSE call_out = [some |-> TRUE, bits |-> Mapping(mem, CallTable, call_in.vpn)]

\* ------------------------------------------------------------ system calls

\* [buf, buf + len) lies in pages the caller may read / write
CallerMayRead(buf, len) ==
    \A i \in 0..(len - 1) : HasFlag(pte_flags(CallerLeaf(buf + i)), PTEFlags_R)
CallerMayWrite(buf, len) ==
    \A i \in 0..(len - 1) : HasFlag(pte_flags(CallerLeaf(buf + i)), PTEFlags_W)

\* C11 (SpecCall): write(1, buf, len) with a range that is not entirely in
\* memory the caller may read returns -1, prints nothing and leaves the
\* kernel running in the state it was in.
C11_BadBufferRejected ==
    (call_in # <<>> /\ call_in.op = "sys_write" /\ call_out # <<>>
        /\ call_in.fd = FD_STDOUT /\ ~CallerMayRead(call_in.buf, call_in.len)) =>
        /\ call_out.ok
        /\ call_out.ret = 0 - 1
        /\ call_out.out = <<>>
        /\ mm_state = "ok"

\* C12 (SpecCall): sys_write with fd = 1 and a buffer the caller may read
\* prints the len bytes the caller has at buf, in order, and returns len;
\* with another fd it returns -1 and prints none of the buffer.
C12_WriteForwards ==
    (call_in # <<>> /\ call_in.op = "sys_write" /\ call_out # <<>>) =>
        IF call_in.fd = FD_STDOUT
        THEN CallerMayRead(call_in.buf, call_in.len) =>
                 /\ call_out.ok
                 /\ call_out.ret = call_in.len
                 /\ call_out.out =
                        [i \in 1..call_in.len |->
                            mem[CallerLoc(call_in.buf + i - 1)[1]]
                               [CallerLoc(call_in.buf + i - 1)[2]]]
        ELSE /\ call_out.ret = 0 - 1
             /\ call_out.out = <<>>

\* C13 (SpecCall): sys_get_time(tv, _) with tv in memory the caller may write
\* stores sec = us div 1_000_000 and usec = us mod 1_000_000 in the frame
\* the caller's page table maps tv to and returns 0; with a null or unmapped
\* tv it stores nothing and returns -1.
C13_GetTimeWrites ==
    [][ (call_in.op = "sys_get_time" /\ call_out = <<>> /\ call_out' # <<>>) =>
          IF call_in.ts # 0 /\ CallerMayWrite(call_in.ts, 2)
          THEN /\ call_out'.ok
               /\ call_out'.ret = 0
               /\ mem'[CallerLoc(call_in.ts)[1]][CallerLoc(call_in.ts)[2]] =
                      get_time_us(call_in.time) \div MICRO_PER_SEC
               /\ mem'[CallerLoc(call_in.ts + 1)[1]][CallerLoc(call_in.ts + 1)[2]] =
                      get_time_us(call_in.time) % MICRO_PER_SEC
          ELSE /\ call_out'.ok
               /\ call_out'.ret = 0 - 1
               /\ mem' = mem ]_vars

\* C14 (SpecSleep): the task that records t0 = get_time() and yields until
\* get_time() >= t0 + 3000 eventually leaves the loop and prints, and when it
\* does at least 3000 ms have passed since it recorded t0.
C14_SleepEnds ==
    /\ <>(sleep.pc = "done")
    /\ [](sleep.pc = "done" =>
            get_time_ms(mtime) - get_time_ms(sleep.started) >= 3000)

\* ------------------------------------------ the borrows of the global cells

\* The cells: TASK_MANAGER.inner, KERNEL_SPACE and FRAME_ALLOCATOR.  A kernel
\* path is the sequence of its borrows, releases and control transfers.
Cells == {"TASK_MANAGER", "KERNEL_SPACE", "FRAME_ALLOCATOR"}

\* cell.exclusive_access() held over body, the guard dropped after it
exclusive_access(cell, body) ==
    << <<"acquire", cell>> >> \o body \o << <<"release", cell>> >>

frame_alloc_steps == exclusive_access("FRAME_ALLOCATOR", <<>>)

\* from_elf: the root table, then map_one for the pages of the areas
from_elf_steps == frame_alloc_steps \o frame_alloc_steps

\* TaskControlBlock::new: from_elf, the kernel stack inserted under the
\* borrow of KERNEL_SPACE (map_one allocates its frames), then token()
TaskControlBlock_new_steps ==
    from_elf_steps
        \o exclusive_access("KERNEL_SPACE", frame_alloc_steps \o frame_alloc_steps)
        \o exclusive_access("KERNEL_SPACE", <<>>)

mark_current_suspended_steps ==
    exclusive_access("TASK_MANAGER", << <<"mark", "Ready">> >>)
mark_current_exited_steps ==
    exclusive_access("TASK_MANAGER", << <<"mark", "Exited">> >>)
find_next_task_steps == exclusive_access("TASK_MANAGER", << <<"find">> >>)

\* run_next_task, the Some(next) branch: inner is dropped before __switch
run_next_task_some_held ==
    << <<"acquire", "TASK_MANAGER">>, <<"dispatch">>, <<"switch">>,
       <<"release", "TASK_MANAGER">> >>
run_next_task_some ==
    exclusive_access("TASK_MANAGER", << <<"dispatch">> >>) \o << <<"switch">> >>
run_next_task_none == << <<"exit_success">> >>
run_next_task_steps == find_next_task_steps \o << <<"if_let">> >>

run_first_task_steps ==
    exclusive_access("TASK_MANAGER", << <<"first">> >>)
        \o << <<"switch">>, <<"unreachable">> >>

current_trap_cx_steps == exclusive_access("TASK_MANAGER", <<>>)
current_user_token_steps == exclusive_access("TASK_MANAGER", <<>>)
trap_return_steps == current_user_token_steps \o << <<"restore">> >>

\* trap_handler by arm; a system call other than yield and exit borrows
\* nothing; sys_exit does not return
TrapArms == {"sys_yield", "sys_exit", "syscall", "fault", "timer"}
trap_handler_steps(arm) ==
    current_trap_cx_steps
        \o (CASE arm \in {"sys_yield", "timer"} ->
                     mark_current_suspended_steps \o run_next_task_steps
              [] arm = "sys_exit" ->
                     mark_current_exited_steps \o run_next_task_steps
                         \o << <<"unreachable">> >>
              [] arm = "fault" -> mark_current_exited_steps \o run_next_task_steps
              [] OTHER -> <<>>)
        \o trap_return_steps

\* TASK_MANAGER's initialiser (one TaskControlBlock::new per application),
\* then run_first_task
RECURSIVE boot_steps(_)
boot_steps(n) ==
    IF n = 0 THEN run_first_task_steps
    ELSE TaskControlBlock_new_steps \o boot_steps(n - 1)

InitBorrow ==
    /\ \E n \in 1..MaxApp :
           /\ TaskInit(n, 0)
           /\ borrow = [held |-> {}, code |-> boot_steps(n), next |-> NoTask,
                        resumed |-> FALSE, ran |-> {},
                        task_cx |-> [t \in 0..(n - 1) |-> trap_return_steps]]
    /\ phase = "kernel"
    /\ FrameIdle
    /\ mem = <<>>
    /\ kernel_space = <<>>
    /\ tcbs = <<>>
    /\ mm_state = "off"
    /\ mm_ops = 0
    /\ mm_event = "none"
    /\ tbb_in = <<>>
    /\ tbb_out = <<>>
    /\ call_in = <<>>
    /\ call_out = <<>>
    /\ mtime = 0
    /\ sleep = <<>>
    /\ waited = <<>>

BorrowOp == Head(borrow.code)
BorrowIdle ==
    UNCHANGED <<num_app, ureg_max, kcont, trap_cx, timer_due, last_task, last_resume, snap,
                found, frameVars, mem, kernel_space, tcbs, mm_state, mm_ops,
                mm_event, tbb_in, tbb_out, call_in, call_out, mtime, sleep, waited>>
BorrowRunning == phase = "kernel" /\ borrow.code # <<>>

\* UPSafeCell::exclusive_access: RefCell::borrow_mut, which panics when the
\* cell is already borrowed
Acquire ==
    /\ BorrowRunning
    /\ BorrowOp[1] = "acquire"
    /\ IF BorrowOp[2] \in borrow.held
       THEN phase' = "panic" /\ borrow' = borrow
       ELSE /\ phase' = phase
            /\ borrow' = [borrow EXCEPT !.held = @ \cup {BorrowOp[2]},
                                        !.code = Tail(@)]
    /\ last_event' = "acquire"
    /\ UNCHANGED <<task_status, current_task>>
    /\ BorrowIdle

\* The RefMut goes out of scope or is dropped
Release ==
    /\ BorrowRunning
    /\ BorrowOp[1] = "release"
    /\ borrow' = [borrow EXCEPT !.held = @ \ {BorrowOp[2]}, !.code = Tail(@)]
    /\ last_event' = "release"
    /\ UNCHANGED <<task_status, current_task, phase>>
    /\ BorrowIdle

\* inner.tasks[current].task_status = Ready / Exited
MarkCurrent ==
    /\ BorrowRunning
    /\ BorrowOp[1] = "mark"
    /\ task_status' = [task_status EXCEPT ![current_task] = BorrowOp[2]]
    /\ borrow' = [borrow EXCEPT !.code = Tail(@)]
    /\ last_event' = "mark"
    /\ UNCHANGED <<current_task, phase>>
    /\ BorrowIdle

\* find_next_task's scan, and the if let on its result
FindNext ==
    /\ BorrowRunning
    /\ BorrowOp[1] = "find"
    /\ borrow' = [borrow EXCEPT !.code = Tail(@),
                                !.next = find_next_task(task_status, current_task, num_app)]
    /\ last_event' = "find"
    /\ UNCHANGED <<task_status, current_task, phase>>
    /\ BorrowIdle

IfLetNext ==
    /\ BorrowRunning
    /\ BorrowOp[1] = "if_let"
    /\ borrow' = [borrow EXCEPT !.code =
                     (IF borrow.next # NoTask THEN run_next_task_some
                      ELSE run_next_task_none) \o Tail(@)]
    /\ last_event' = "if_let"
    /\ UNCHANGED <<task_status, current_task, phase>>
    /\ BorrowIdle

\* tasks[next].task_status = Running; current_task = next (tasks[0] in
\* run_first_task); last_task keeps the task whose context __switch saves
Dispatch ==
    /\ BorrowRunning
    /\ BorrowOp[1] \in {"dispatch", "first"}
    /\ LET next == IF BorrowOp[1] = "first" THEN 0 ELSE borrow.next IN
       /\ task_status' = [task_status EXCEPT ![next] = "Running"]
       /\ current_task' = next
    /\ borrow' = [borrow EXCEPT !.code = Tail(@),
                                !.next = IF BorrowOp[1] = "first" THEN NoTask
                                         ELSE current_task]
    /\ last_event' = BorrowOp[1]
    /\ UNCHANGED phase
    /\ BorrowIdle

\* __switch: the rest of the path is saved in the outgoing task's context
\* (in _unused from run_first_task) and the incoming task's is resumed
Switch ==
    /\ BorrowRunning
    /\ BorrowOp[1] = "switch"
    /\ LET saved == IF borrow.next = NoTask THEN borrow.task_cx
                    ELSE [borrow.task_cx EXCEPT ![borrow.next] = Tail(borrow.code)]
       IN /\ borrow' = [borrow EXCEPT !.task_cx = saved,
                                      !.code = saved[current_task],
                                      !.next = NoTask,
                                      !.resumed = current_task \in borrow.ran]
    /\ last_event' = "switch"
    /\ UNCHANGED <<task_status, current_task, phase>>
    /\ BorrowIdle

\* The jump to __restore: the task runs in user mode
Restore ==
    /\ BorrowRunning
    /\ BorrowOp[1] = "restore"
    /\ phase' = "user"
    /\ borrow' = [borrow EXCEPT !.code = <<>>, !.resumed = FALSE,
                                !.ran = @ \cup {current_task}]
    /\ last_event' = "restore"
    /\ UNCHANGED <<task_status, current_task>>
    /\ BorrowIdle

\* exit_success() stops the machine; panic!("unreachable ...") halts the kernel
Halt ==
    /\ BorrowRunning
    /\ BorrowOp[1] \in {"exit_success", "unreachable"}
    /\ phase' = (IF BorrowOp[1] = "exit_success" THEN "shutdown" ELSE "panic")
    /\ borrow' = borrow
    /\ last_event' = BorrowOp[1]
    /\ UNCHANGED <<task_status, current_task>>
    /\ BorrowIdle

\* A trap from user mode enters trap_handler
TrapEnter(arm) ==
    /\ phase = "user"
    /\ phase' = "kernel"
    /\ borrow' = [borrow EXCEPT !.code = trap_handler_steps(arm)]
    /\ last_event' = arm
    /\ UNCHANGED <<task_status, current_task>>
    /\ BorrowIdle

NextBorrow ==
    \/ Acquire
    \/ Release
    \/ MarkCurrent
    \/ FindNext
    \/ IfLetNext
    \/ Dispatch
    \/ Switch
    \/ Restore
    \/ Halt
    \/ \E arm \in TrapArms : TrapEnter(arm)

SpecBorrow == InitBorrow /\ [][NextBorrow]_vars

\* ------------------------------------------------------------------------
\* SpecConv: one pure function of the kernel or the user library applied to
\* an argument drawn at Init; call_out keeps what it returned.

\* VirtAddr::ceil / PhysAddr::ceil as either build computes it: self.0 - 1
\* goes below zero at 0 (underflow), which panics where overflow checks are
\* compiled in (ok FALSE) and wraps where they are not, and the sum that
\* follows panics where it passes the word
ceil_build(a, overflow_checks) ==
    [ok |-> ~(overflow_checks /\ (a < 1 \/ a - 1 + PAGE_SIZE >= USIZE)),
     underflow |-> a < 1,
     v |-> ceil(a)]

\* Every virtual address, and physical addresses up to the top of the
\* physical address space
CeilAddrs ==
    0..(2 ^ VA_WIDTH_SV39 - 1)
        \cup {PhysAddr_from(v) : v \in {ekernel, MEMORY_END, MEMORY_END - 1,
                                        2 ^ PA_WIDTH_SV39 - PAGE_SIZE, USIZE - 1}}
CeilCalls == {[op |-> "ceil", a |-> a, overflow_checks |-> oc]
                  : a \in CeilAddrs, oc \in BOOLEAN}

\* Raw integers handed to VirtAddr::from: every value of the low VA_WIDTH
\* bits under upper bits all zero, all one, and three mixed patterns
UpperBits == {0, 1, 2 ^ (USIZE_BITS - VA_WIDTH_SV39 - 1),
              2 ^ (USIZE_BITS - VA_WIDTH_SV39) - 2, 2 ^ (USIZE_BITS - VA_WIDTH_SV39) - 1}
RoundTripCalls ==
    {[op |-> "round_trip", v |-> h * (2 ^ VA_WIDTH_SV39) + l]
         : h \in UpperBits, l \in 0..(2 ^ VA_WIDTH_SV39 - 1)}

\* The TimeVal sys_get_time fills at two successive calls of get_time():
\* seconds on either side of 2^16, microseconds below MICRO_PER_SEC, the
\* second reading not earlier than the first
ClockSecs == {0, 1, 2 ^ 16 - 1, 2 ^ 16, 2 ^ 16 + 1}
ClockUsecs == {0, 999, 1000, MICRO_PER_SEC - 1}
TimeVals == {[sec |-> sc, usec |-> us] : sc \in ClockSecs, us \in ClockUsecs}
NotEarlier(tv1, tv2) ==
    tv1.sec < tv2.sec \/ (tv1.sec = tv2.sec /\ tv1.usec <= tv2.usec)
GetTimeCalls ==
    UNION {{[op |-> "get_time", tv1 |-> t1, tv2 |-> t2]
                : t2 \in {t \in TimeVals : NotEarlier(t1, t)}}
           : t1 \in TimeVals}

\* checkmem(addr, len): addresses at and next to the ends of its two
\* windows and of the word, lengths that end inside, at and past a window
\* and lengths that carry addr + len past the word
CheckmemAddrs ==
    {0, USIZE - 1, USIZE - PAGE_SIZE}
        \cup {b + d : b \in {USER_STACK_data, USER_STACK_get_sp, APP_BASE_ADDRESS,
                             APP_BASE_ADDRESS + APP_SIZE_LIMIT},
                      d \in {0 - 1, 0, 1}}
CheckmemLens(addr) ==
    {0, 1, 2, batch_USER_STACK_SIZE, APP_SIZE_LIMIT, APP_SIZE_LIMIT + 1, USIZE - 1}
        \cup {(USIZE - addr + d) % USIZE : d \in {0, 1, USER_STACK_get_sp}}
CheckmemCalls ==
    UNION {{[op |-> "checkmem", addr |-> a, len |-> n, overflow_checks |-> oc]
                : n \in CheckmemLens(a), oc \in BOOLEAN}
           : a \in CheckmemAddrs}

ConvCalls == CeilCalls \cup RoundTripCalls \cup GetTimeCalls \cup CheckmemCalls

InitConv ==
    /\ FrameIdle
    /\ mem = <<>>
    /\ kernel_space = <<>>
    /\ tcbs = <<>>
    /\ mm_state = "off"
    /\ mm_ops = 0
    /\ mm_event = "none"
    /\ tbb_in = <<>>
    /\ tbb_out = <<>>
    /\ call_in \in ConvCalls
    /\ call_out = <<>>
    /\ mtime = 0
    /\ sleep = <<>>
    /\ borrow = <<>>
    /\ waited = <<>>
    /\ SchedOff("conv")

ConvReturn(ret) ==
    /\ call_out = <<>>
    /\ call_out' = ret
    /\ UNCHANGED <<frameVars, mem, kernel_space, tcbs, mm_state, mm_ops, mm_event,
                   tbb_in, tbb_out, call_in, sleepVars, schedVars>>

ApplyCeil ==
    /\ call_in.op = "ceil"
    /\ ConvReturn([floor |-> floor(call_in.a),
                   ceil |-> ceil_build(call_in.a, call_in.overflow_checks)])

\* usize::from(VirtAddr::from(v))
ApplyRoundTrip ==
    /\ call_in.op = "round_trip"
    /\ ConvReturn([va |-> VirtAddr_from(call_in.v),
                   back |-> usize_from_VirtAddr(VirtAddr_from(call_in.v))])

\* two calls of the user library's get_time(), gettimeofday returning 0
ApplyGetTime ==
    /\ call_in.op = "get_time"
    /\ ConvReturn([first |-> get_time(0, call_in.tv1),
                   second |-> get_time(0, call_in.tv2)])

ApplyCheckmem ==
    /\ call_in.op = "checkmem"
    /\ ConvReturn(checkmem(call_in.addr, call_in.len, call_in.overflow_checks))

NextConv ==
    \/ ApplyCeil
    \/ ApplyCheckmem
    \/ ApplyGetTime
    \/ ApplyRoundTrip

SpecConv == InitConv /\ [][NextConv]_vars

\* ------------------------------------------------------------------------
\* SpecSched: the task table alone.  Every trap that reaches
\* suspend_current_and_run_next or exit_current_and_run_next is a
\* scheduling decision; waited[t] is NoTask while t is not waiting, and
\* otherwise the number of further switches made since a decision found t
\* Ready and switched to another task.

InitSched ==
    /\ \E n \in 1..MaxApp : TaskInit(n, 0) /\ waited = [t \in 0..(n - 1) |-> NoTask]
    /\ phase = "boot"
    /\ FrameIdle
    /\ mem = <<>>
    /\ kernel_space = <<>>
    /\ tcbs = <<>>
    /\ mm_state = "off"
    /\ mm_ops = 0
    /\ mm_event = "none"
    /\ tbb_in = <<>>
    /\ tbb_out = <<>>
    /\ call_in = <<>>
    /\ call_out = <<>>
    /\ mtime = 0
    /\ sleep = <<>>
    /\ borrow = <<>>

SchedKeep ==
    UNCHANGED <<num_app, ureg_max, kcont, trap_cx, last_resume, snap, found, frameVars,
                mem, kernel_space, tcbs, mm_state, mm_ops, mm_event, tbb_in, tbb_out,
                call_in, call_out, mtime, sleep, borrow>>

\* run_first_task
SchedFirst ==
    /\ phase = "boot"
    /\ task_status' = [task_status EXCEPT ![0] = "Running"]
    /\ phase' = "user"
    /\ last_event' = "run_first"
    /\ UNCHANGED <<current_task, timer_due, last_task, waited>>
    /\ SchedKeep

\* run_next_task on the table as the trap marked it: a switch to the task
\* find_next_task returned, or the shutdown
SchedDecide(marked, res, ev) ==
    /\ task_status' = res.status
    /\ current_task' = res.cur
    /\ phase' = IF res.how = "switch" THEN "user" ELSE "shutdown"
    /\ waited' = IF res.how = "switch"
                 THEN [t \in 0..(num_app - 1) |->
                          IF t = res.cur \/ marked[t] # "Ready" THEN NoTask
                          ELSE IF waited[t] = NoTask THEN 0 ELSE waited[t] + 1]
                 ELSE waited
    /\ last_event' = ev
    /\ last_task' = current_task
    /\ SchedKeep

\* sys_yield
SchedYield ==
    /\ phase = "user"
    /\ SchedDecide(mark_current_suspended(task_status, current_task),
                   suspend_current_and_run_next(task_status, current_task, num_app), "yield")
    /\ UNCHANGED timer_due

\* sys_exit
SchedExit ==
    /\ phase = "user"
    /\ SchedDecide(mark_current_exited(task_status, current_task),
                   exit_current_and_run_next(task_status, current_task, num_app), "exit")
    /\ UNCHANGED timer_due

\* the store/load fault and illegal instruction arms
SchedFault ==
    /\ phase = "user"
    /\ SchedDecide(mark_current_exited(task_status, current_task),
                   exit_current_and_run_next(task_status, current_task, num_app), "fault")
    /\ UNCHANGED timer_due

\* the SupervisorTimer arm
SchedTimer ==
    /\ phase = "user"
    /\ timer_due
    /\ timer_due' = set_next_trigger(timer_due)
    /\ SchedDecide(mark_current_suspended(task_status, current_task),
                   suspend_current_and_run_next(task_status, current_task, num_app), "timer")

\* The time CSR reaches the trigger
SchedClock ==
    /\ phase \in {"boot", "user"}
    /\ ~timer_due
    /\ timer_due' = TRUE
    /\ UNCHANGED <<task_status, current_task, phase, last_event, last_task, waited>>
    /\ SchedKeep

SchedTrap == SchedYield \/ SchedExit \/ SchedFault \/ SchedTimer

NextSched ==
    \/ SchedFirst
    \/ SchedYield
    \/ SchedExit
    \/ SchedFault
    \/ SchedTimer
    \/ SchedClock

\* The boot path reaches run_first_task, and the task that runs traps into
\* the scheduler sooner or later (at the latest when the timer fires).
SpecSched ==
    /\ InitSched
    /\ [][NextSched]_vars
    /\ WF_vars(SchedFirst)
    /\ WF_vars(SchedTrap)

\* ------------------------------------- views, traps, borrows, address spaces

\* C21 (SpecCall): token() is 8 in the four mode bits over the root frame
\* number; from_token(token()) has the same root and owns no frame, its
\* translate agrees with the table's own for every vpn, and making, using
\* and dropping it leaves the allocator and the memory as they were.
C21_TokenView ==
    [][ (call_in.op = "from_token" /\ call_out = <<>> /\ call_out' # <<>>) =>
          /\ call_out'.satp \div (2 ^ (USIZE_BITS - 4)) = 8
          /\ call_out'.satp % (2 ^ (USIZE_BITS - 4)) = CallTable.root_ppn
          /\ call_out'.view.root_ppn = CallTable.root_ppn
          /\ call_out'.view.frames = <<>>
          /\ \A v \in AllVpns :
                 translate(mem, from_token(token(CallTable)), v)
                     = translate(mem, CallTable, v)
          /\ call_out'.pte = translate(mem, CallTable, call_in.vpn)
          /\ call_out'.ok
          /\ mm_state' = "ok"
          /\ <<mem', current', recycled'>> = <<mem, current, recycled>> ]_vars

C21_Witness ==
    /\ call_in # <<>> /\ call_in.op = "from_token" /\ call_out # <<>>
    /\ call_in.space = 1
    /\ call_out.pte.some
    /\ Len(CallTable.frames) > 1

\* C22 (SpecTask): a load, store or instruction fault (page faults
\* included) or an illegal instruction raised by the running task leaves
\* that task Exited and the next Ready task Running (or the machine shut
\* down when none is left); the kernel does not panic.
C22_UserFaultsKill ==
    [][ (phase = "user" /\ last_event' \in FaultCauses \cup
                              {"InstructionFault", "InstructionPageFault"}) =>
          /\ phase' # "panic"
          /\ task_status'[current_task] = "Exited"
          /\ phase' = "user" => task_status'[current_task'] = "Running" ]_vars

C24_NoReentry ==
    /\ phase # "panic"
    /\ borrow.held \subseteq Cells
    /\ phase = "user" => borrow.held = {}
    /\ (phase = "kernel" /\ borrow.code # <<>>) =>
          /\ BorrowOp[1] = "acquire" => BorrowOp[2] \notin borrow.held
          /\ BorrowOp[1] \in {"switch", "restore"} => borrow.held = {}

C24_Witness ==
    /\ phase = "kernel"
    /\ borrow.resumed
    /\ borrow.held = {"TASK_MANAGER"}
    /\ \E t \in Tasks : task_status[t] = "Exited"
    /\ \E t \in Tasks : t # current_task /\ t \in borrow.ran
                          /\ task_status[t] = "Ready"

\* C25 (SpecMem): kernel_stack_position(i) is (top - KERNEL_STACK_SIZE, top)
\* with top = TRAMPOLINE - i * (KERNEL_STACK_SIZE + PAGE_SIZE); the stacks of
\* two task indices are disjoint, between neighbours lies exactly one page,
\* which the kernel's page table does not map, and no stack reaches into the
\* trampoline page.
C25_KernelStacks ==
    mm_state = "ok" =>
    \A i \in 0..MaxApp :
        LET s == kernel_stack_position(i)
            n == kernel_stack_position(i + 1)
        IN /\ s.top = TRAMPOLINE - i * (KERNEL_STACK_SIZE + PAGE_SIZE)
           /\ s.bottom = s.top - KERNEL_STACK_SIZE
           /\ s.bottom >= 0
           /\ s.top <= TRAMPOLINE
           /\ \A j \in 0..MaxApp :
                  i # j => \/ kernel_stack_position(j).top <= s.bottom
                           \/ s.top <= kernel_stack_position(j).bottom
           /\ s.bottom - n.top = PAGE_SIZE
           /\ i < Len(tcbs) =>
                  /\ Mapping(mem, kernel_space.page_table,
                             floor(VirtAddr_from(n.top))) = 0
                  /\ floor(VirtAddr_from(n.top)) + 1 = floor(VirtAddr_from(s.bottom))

C25_Witness ==
    /\ mm_state = "ok"
    /\ Len(tcbs) = 2
    /\ \A i \in 0..1 :
           \A a \in {kernel_stack_position(i).bottom, kernel_stack_position(i).top - 1} :
               Mapping(mem, kernel_space.page_table, floor(VirtAddr_from(a))) # 0

\* The address spaces in order: KERNEL_SPACE, then the tasks'
SpaceSeq(ks, ts) == <<ks>> \o [i \in 1..Len(ts) |-> ts[i].memory_set]

\* area holds one tracker for each vpn of its range and for no other vpn,
\* no frame twice (Framed), or no tracker at all (Identical)
HoldsItsRange(area) ==
    IF area.map_type = "Framed"
    THEN /\ DOMAIN area.data_frames = area.vpn_start..(area.vpn_end - 1)
         /\ \A v, w \in DOMAIN area.data_frames :
                v # w => area.data_frames[v] # area.data_frames[w]
    ELSE DOMAIN area.data_frames = {}

\* C26 (SpecMem): an area pushed into an address space holds, if Framed, one
\* tracker per page of its vpn range under exactly the vpns of the range, and
\* none if Identical; it keeps exactly these through every later install
\* and uninstall of other areas, until its own uninstall, which leaves it
\* none.
C26_AreaFrames ==
    /\ [](mm_state # "off" =>
             \A ms \in AllSpaces : \A a \in Areas(ms) :
                 \/ HoldsItsRange(a)
                 \/ a.map_type = "Framed" /\ DOMAIN a.data_frames = {})
    /\ [][ mm_state' = "ok" =>
             LET old == SpaceSeq(kernel_space, tcbs)
                 new == SpaceSeq(kernel_space', tcbs')
             IN \A s \in 1..Len(new) : \A i \in 1..Len(new[s].areas) :
                    IF s <= Len(old) /\ i <= Len(old[s].areas)
                    THEN \/ new[s].areas[i] = old[s].areas[i]
                         \/ /\ mm_event' = "unmap"
                            /\ new[s].areas[i] =
                                   [old[s].areas[i] EXCEPT !.data_frames = NoFrames]
                    ELSE HoldsItsRange(new[s].areas[i]) ]_vars

C26_Witness ==
    /\ mm_state = "ok"
    /\ mm_event = "insert"
    /\ \E ms \in AllSpaces :
           /\ \E a \in Areas(ms) :
                  a.map_type = "Framed" /\ a.vpn_start < a.vpn_end
                      /\ DOMAIN a.data_frames = {}
           /\ \E a \in Areas(ms) :
                  a.map_type = "Framed" /\ a.vpn_end - a.vpn_start >= 2
                      /\ HoldsItsRange(a)
           /\ \E a \in Areas(ms) :
                  a.map_type = "Framed" /\ a = ms.areas[Len(ms.areas)]
                      /\ a.vpn_start < a.vpn_end /\ HoldsItsRange(a)

\* the pages of [start, end)
PagesOf(start_va, end_va) ==
    floor(VirtAddr_from(start_va))..(ceil(VirtAddr_from(end_va)) - 1)

\* C27 (SpecMem): in the kernel's address space every page of .text is
\* mapped to the frame of its own number with R and X and without W, every
\* page of .rodata with R alone, and every page of .data, .bss, the memory
\* from ekernel to MEMORY_END and the MMIO windows with R and W and without
\* X; remap_test's assertions hold.
C27_KernelPermissions ==
    mm_state # "off" =>
        LET leaf(vpn) == Mapping(mem, kernel_space.page_table, vpn)
            rw == PagesOf(sdata, edata) \cup PagesOf(sbss_with_stack, ebss)
                    \cup PagesOf(ekernel, MEMORY_END)
                    \cup UNION {PagesOf(MMIO[i][1], MMIO[i][1] + MMIO[i][2])
                                    : i \in 1..Len(MMIO)}
        IN /\ \A vpn \in PagesOf(stext, etext) :
                  leaf(vpn) = PageTableEntry_new(vpn, PTEFlags_V + PTEFlags_R + PTEFlags_X)
           /\ \A vpn \in PagesOf(srodata, erodata) :
                  leaf(vpn) = PageTableEntry_new(vpn, PTEFlags_V + PTEFlags_R)
           /\ \A vpn \in rw :
                  leaf(vpn) = PageTableEntry_new(vpn, PTEFlags_V + PTEFlags_R + PTEFlags_W)
           /\ remap_test(mem, kernel_space)

C27_Witness ==
    /\ mm_state = "ok"
    /\ mm_event = "unmap"
    /\ Len(tcbs) = 2
    /\ Len(kernel_space.areas) > Len(KernelSections)
    /\ \A vpn \in PagesOf(stext, MEMORY_END) :
           Mapping(mem, kernel_space.page_table, vpn) # 0

\* the frames whose trackers an address space holds
OwnedFrames(ms) ==
    Range(ms.page_table.frames)
        \cup UNION {Range(data_frames_values(a)) : a \in Areas(ms)}
RECURSIVE AreaTrackers(_, _)
AreaTrackers(areas, i) ==
    IF i > Len(areas) THEN 0
    ELSE Cardinality(DOMAIN areas[i].data_frames) + AreaTrackers(areas, i + 1)
TrackerCount(ms) == Len(ms.page_table.frames) + AreaTrackers(ms.areas, 1)

\* C28 (SpecCall): dropping an address space appends to the allocator's
\* recycled list every frame the space owned (the nodes of its page table
\* and the data frames of its Framed areas), each once and nothing else: no
\* frame of the other address space, none that is only identity mapped, and
\* the allocator's check never fails.
C28_DropReturnsOwned ==
    [][ (call_in.op = "drop" /\ call_out = <<>> /\ call_out' # <<>>) =>
          LET ms == Space(call_in.space)
              other == Space(1 - call_in.space)
              released == SubSeq(recycled', Len(recycled) + 1, Len(recycled'))
          IN /\ call_out'.ok
             /\ mm_state' = "ok"
             /\ SubSeq(recycled', 1, Len(recycled)) = recycled
             /\ current' = current
             /\ Range(released) = OwnedFrames(ms)
             /\ Len(released) = TrackerCount(ms)
             /\ Cardinality(Range(released)) = Len(released)
             /\ Range(released) \cap OwnedFrames(other) = {}
             /\ Range(released) \cap Range(recycled) = {} ]_vars

C28_Witness ==
    /\ call_in # <<>> /\ call_in.op = "drop" /\ call_out # <<>>
    /\ call_in.space = 1
    /\ mm_state = "ok"
    /\ Len(recycled) > Len(tcbs[1].memory_set.page_table.frames) + 5

\* the PT_LOAD headers of an image and the highest end of their pages
LoadHeaders(elf) == {elf.ph[i] : i \in {j \in 1..Len(elf.ph) : elf.ph[j].type = "Load"}}
Max(S) == CHOOSE x \in S : \A y \in S : y <= x
HighestEnd(elf) ==
    Max({ceil(VirtAddr_from(h.vaddr + h.memsz)) : h \in LoadHeaders(elf)}) * PAGE_SIZE

\* C29 (SpecCall): from_elf returns, with the user stack the area
\* [E + PAGE_SIZE, E + PAGE_SIZE + USER_STACK_SIZE) for E the highest page
\* end of the PT_LOAD segments in whatever order they are listed, so that
\* neither the stack nor the guard page below it shares a page with a
\* segment; user_stack_top is the stack's top.
C29_StackAboveSegments ==
    (call_in # <<>> /\ call_in.op = "from_elf" /\ call_out # <<>>) =>
        LET E == HighestEnd(call_in.elf)
            n == Cardinality({j \in 1..Len(call_in.elf.ph) :
                                 call_in.elf.ph[j].type = "Load"})
        IN /\ call_out.ok
           /\ call_out.user_sp = E + PAGE_SIZE + USER_STACK_SIZE
           /\ call_out.ms.areas[n + 1].vpn_start = floor(VirtAddr_from(E + PAGE_SIZE))
           /\ call_out.ms.areas[n + 1].vpn_end =
                  ceil(VirtAddr_from(E + PAGE_SIZE + USER_STACK_SIZE))
           /\ \A i \in 1..n :
                  call_out.ms.areas[i].vpn_end < call_out.ms.areas[n + 1].vpn_start

\* C30 (SpecCall): for a Framed area of n >= 1 pages and data of at most
\* n * PAGE_SIZE bytes, copy_data puts byte k of data at offset
\* k mod PAGE_SIZE of the frame that backs vpn start + k div PAGE_SIZE,
\* leaves every other byte of the area's frames zero and changes no other
\* frame; on an Identical area its assertion fails.
C30_CopyData ==
    [][ (call_in.op = "push" /\ call_out = <<>> /\ call_out' # <<>>) =>
          LET n == (call_in.end_va - call_in.start_va) \div PAGE_SIZE
              area == MapArea_new(VirtAddr_from(call_in.start_va),
                                  VirtAddr_from(call_in.end_va), call_in.map_type,
                                  RW + MapPermission_U).area
              mapped == MapArea_map(Heap, CallTable, area)
              frame(i) == mapped.area.data_frames[area.vpn_start + i]
              len == Len(call_in.data)
          IN IF call_in.map_type = "Identical"
             THEN ~call_out'.ok /\ mm_state' = "panic" /\ mem' = mem
             ELSE /\ n >= 1 => call_out'.ok
                  /\ call_out'.ok =>
                        /\ \A k \in 0..(len - 1) :
                               mem'[frame(k \div PAGE_SIZE)][k % PAGE_SIZE]
                                   = call_in.data[k + 1]
                        /\ \A i \in 0..(n - 1) : \A o \in 0..(PAGE_SIZE - 1) :
                               i * PAGE_SIZE + o >= len => mem'[frame(i)][o] = 0
                        /\ \A q \in DOMAIN mem' \ {frame(i) : i \in 0..(n - 1)} :
                               mem'[q] = mapped.H.mem[q]
                  /\ ~call_out'.ok => mem' = mem ]_vars

C30_Witness ==
    /\ call_in # <<>> /\ call_in.op = "push" /\ call_out # <<>>
    /\ call_in.map_type = "Framed"
    /\ Len(call_in.data) = PAGE_SIZE + 1
    /\ call_out.ok
    /\ mem[call_out.ms.areas[Len(call_out.ms.areas)].data_frames[PushVpn + 1]]
           = [o \in 0..(PAGE_SIZE - 1) |-> IF o = 0 THEN PAGE_SIZE + 1 ELSE 0]

\* ---- walks, conversions, clocks, scheduling, ownership, loading

\* The interior tables missing on the path of vpn: 2 where the root's entry
\* is invalid, 1 where only the second level's is
MissingTables(m, pt, vpn) ==
    IF ~is_valid(m[pt.root_ppn][indexes(vpn)[1]]) THEN 2
    ELSE IF ~is_valid(m[pte_ppn(m[pt.root_ppn][indexes(vpn)[1]])][indexes(vpn)[2]])
    THEN 1 ELSE 0

FreeFrames(cur, rec) == Range(rec) \cup cur..(end - 1)

\* C31 (SpecCall): a map that returns allocated one frame per interior table
\* missing on the path of its vpn, taken from the free frames, appended them
\* to the table's frames in path order, and left on the path branch entries
\* PageTableEntry::new(frame, V); with no table missing the allocator is as
\* it was.  A translate leaves memory, the allocator and every table as
\* they were.
C31_WalkCreate ==
    [][ /\ (call_in.op = "map" /\ call_out = <<>> /\ call_out' # <<>> /\ call_out'.ok) =>
             LET pt == CallTable
                 k == MissingTables(mem, pt, call_in.vpn)
                 L == Len(pt.frames)
                 i1 == indexes(call_in.vpn)[1]
                 i2 == indexes(call_in.vpn)[2]
                 n1 == pte_ppn(mem'[pt.root_ppn][i1])
                 n2 == pte_ppn(mem'[n1][i2])
                 fr == CallTable'.frames
             IN /\ Len(fr) = L + k
                /\ SubSeq(fr, 1, L) = pt.frames
                /\ CallTable'.root_ppn = pt.root_ppn
                /\ FreeFrames(current', recycled') \subseteq FreeFrames(current, recycled)
                /\ FreeFrames(current, recycled) \ FreeFrames(current', recycled')
                       = {fr[j] : j \in (L + 1)..(L + k)}
                /\ Cardinality({fr[j] : j \in (L + 1)..(L + k)}) = k
                /\ mem'[pt.root_ppn][i1] = PageTableEntry_new(n1, PTEFlags_V)
                /\ mem'[n1][i2] = PageTableEntry_new(n2, PTEFlags_V)
                /\ k = 2 => fr[L + 1] = n1 /\ fr[L + 2] = n2
                /\ k = 1 => fr[L + 1] = n2
                /\ k <= 1 => mem'[pt.root_ppn][i1] = mem[pt.root_ppn][i1]
                /\ k = 0 => /\ mem'[n1][i2] = mem[n1][i2]
                            /\ current' = current /\ recycled' = recycled
        /\ (call_in.op = "translate" /\ call_out = <<>> /\ call_out' # <<>>) =>
             /\ mem' = mem /\ current' = current /\ recycled' = recycled
             /\ kernel_space' = kernel_space /\ tcbs' = tcbs ]_vars

\* a map on the task's table at a vpn both of whose interior tables were
\* missing: the two nodes of its path are the last two frames of the table
C31_Witness ==
    /\ call_in # <<>> /\ call_in.op = "map" /\ call_out # <<>> /\ call_out.ok
    /\ call_in.space = 1 /\ call_in.vpn = PushVpn
    /\ LET fr == CallTable.frames
           n1 == pte_ppn(mem[CallTable.root_ppn][indexes(PushVpn)[1]])
       IN /\ Len(fr) >= 3
          /\ fr[Len(fr) - 1] = n1
          /\ fr[Len(fr)] = pte_ppn(mem[n1][indexes(PushVpn)[2]])

\* C32 (SpecConv): for every address a, 0 and the page-aligned ones included,
\* ceil(a) is computed without underflow or overflow in either build, and
\* floor(a) * PAGE_SIZE <= a <= ceil(a) * PAGE_SIZE with ceil(a) = floor(a)
\* where a is page-aligned and ceil(a) = floor(a) + 1 where it is not.
C32_FloorCeil ==
    (call_in # <<>> /\ call_in.op = "ceil" /\ call_out # <<>>) =>
        /\ call_out.ceil.ok
        /\ ~call_out.ceil.underflow
        /\ call_out.floor * PAGE_SIZE <= call_in.a
        /\ call_in.a <= call_out.ceil.v * PAGE_SIZE
        /\ call_in.a % PAGE_SIZE = 0 => call_out.ceil.v = call_out.floor
        /\ call_in.a % PAGE_SIZE # 0 => call_out.ceil.v = call_out.floor + 1

\* A canonical address: the bits above VA_WIDTH - 1 all equal that bit
Canonical(v) == v < 2 ^ (VA_WIDTH_SV39 - 1) \/ v >= USIZE - 2 ^ (VA_WIDTH_SV39 - 1)

\* C33 (SpecConv): VirtAddr::from(v) keeps the low VA_WIDTH bits of v and
\* nothing else; converting back gives the canonical address with those low
\* bits, which is v itself where v is canonical.
C33_RoundTrip ==
    (call_in # <<>> /\ call_in.op = "round_trip" /\ call_out # <<>>) =>
        /\ call_out.va \in 0..(2 ^ VA_WIDTH_SV39 - 1)
        /\ call_out.va % (2 ^ VA_WIDTH_SV39) = call_in.v % (2 ^ VA_WIDTH_SV39)
        /\ call_out.back \in 0..(USIZE - 1)
        /\ Canonical(call_out.back)
        /\ call_out.back % (2 ^ VA_WIDTH_SV39) = call_in.v % (2 ^ VA_WIDTH_SV39)
        /\ Canonical(call_in.v) => call_out.back = call_in.v

C33_Witness ==
    /\ call_in # <<>> /\ call_in.op = "round_trip" /\ call_out # <<>>
    /\ call_in.v = TRAP_CONTEXT
    /\ call_out.back = TRAP_CONTEXT
    /\ call_out.va = 2 ^ VA_WIDTH_SV39 - 2 * PAGE_SIZE

\* C34 (SpecConv): get_time() is sec * 1000 + usec / 1000 of the TimeVal
\* gettimeofday filled, the milliseconds since power-on, and of two calls
\* the later one does not return less, whatever the clock reads.
C34_GetTimeMonotone ==
    (call_in # <<>> /\ call_in.op = "get_time" /\ call_out # <<>>) =>
        /\ call_out.first = call_in.tv1.sec * 1000 + call_in.tv1.usec \div 1000
        /\ call_out.second = call_in.tv2.sec * 1000 + call_in.tv2.usec \div 1000
        /\ call_out.first <= call_out.second

\* [addr, addr + len) lies inside [lo, hi)
RangeInside(addr, len, lo, hi) == lo <= addr /\ addr + len <= hi

\* C35 (SpecConv): checkmem(addr, len) returns true only where the whole of
\* [addr, addr + len) lies inside USER_STACK or inside [APP_BASE_ADDRESS,
\* APP_BASE_ADDRESS + APP_SIZE_LIMIT), also where addr + len passes the word.
C35_CheckmemSound ==
    (call_in # <<>> /\ call_in.op = "checkmem" /\ call_out # <<>> /\ call_out.v) =>
        \/ RangeInside(call_in.addr, call_in.len, USER_STACK_data, USER_STACK_get_sp)
        \/ RangeInside(call_in.addr, call_in.len, APP_BASE_ADDRESS,
                       APP_BASE_ADDRESS + APP_SIZE_LIMIT)

NodeFrames(ms) == Range(ms.page_table.frames)
DataFrames(ms) == UNION {Range(data_frames_values(a)) : a \in Areas(ms)}
\* The tables a walk from the root of ms can pass through
MidTables(m, ms) ==
    {pte_ppn(m[ms.page_table.root_ppn][i2]) : i2 \in ValidIdx(m, ms.page_table.root_ppn)}
WalkedTables(m, ms) ==
    {ms.page_table.root_ppn} \cup MidTables(m, ms)
        \cup UNION {{pte_ppn(m[t][i1]) : i1 \in ValidIdx(m, t)} : t \in MidTables(m, ms)}
\* The frames user-mode loads and stores of ms reach
UserFrames(m, ms) ==
    {pte_ppn(l.bits) : l \in {x \in Leaves(m, ms.page_table.root_ppn) :
                                  HasFlag(pte_flags(x.bits), PTEFlags_U)}}

\* C37 (SpecMem): no frame is held twice: the node lists of the page tables
\* and the data frames of the Framed areas of all address spaces are
\* pairwise disjoint and free of repetitions, and none of them is free in
\* the allocator; every table a walk passes through is a node of its own
\* space, and the frames a task reaches in user mode are data frames of its
\* own areas, so that they are neither a table nor reachable by another
\* task.
C37_FramesDisjoint ==
    mm_state = "ok" =>
        LET sp == SpaceSeq(kernel_space, tcbs) IN
        /\ \A i \in 1..Len(sp) :
               /\ Cardinality(NodeFrames(sp[i])) = Len(sp[i].page_table.frames)
               /\ NodeFrames(sp[i]) \cap DataFrames(sp[i]) = {}
               /\ \A a, b \in 1..Len(sp[i].areas) :
                      a # b => Range(data_frames_values(sp[i].areas[a]))
                                   \cap Range(data_frames_values(sp[i].areas[b])) = {}
               /\ \A a \in 1..Len(sp[i].areas) :
                      Cardinality(Range(data_frames_values(sp[i].areas[a])))
                          = Cardinality(DOMAIN sp[i].areas[a].data_frames)
               /\ OwnedFrames(sp[i]) \cap FreeFrames(current, recycled) = {}
               /\ WalkedTables(mem, sp[i]) \subseteq NodeFrames(sp[i])
               /\ UserFrames(mem, sp[i]) \subseteq DataFrames(sp[i])
        /\ \A i, j \in 1..Len(sp) :
               i # j => /\ OwnedFrames(sp[i]) \cap OwnedFrames(sp[j]) = {}
                        /\ UserFrames(mem, sp[i]) \cap UserFrames(mem, sp[j]) = {}
                        /\ UserFrames(mem, sp[i]) \cap NodeFrames(sp[j]) = {}

\* two tasks loaded, an area of the first unmapped and its frame handed out
\* again to an area inserted into the second
C37_Witness ==
    /\ mm_state = "ok" /\ Len(tcbs) = 2 /\ mm_event = "insert"
    /\ UserFrames(mem, tcbs[1].memory_set) # {}
    /\ \E a1 \in Areas(tcbs[1].memory_set), a2 \in Areas(tcbs[2].memory_set) :
           /\ a1.map_type = "Framed" /\ a1.vpn_end > a1.vpn_start
           /\ DOMAIN a1.data_frames = {}
           /\ a2.vpn_start = tcbs[2].base_size \div PAGE_SIZE
           /\ DOMAIN a2.data_frames # {}
           /\ Len(recycled) < a1.vpn_end - a1.vpn_start

\* The pages of the PT_LOAD segments of an image, and of the user stack
\* below user_sp
SegmentPages(elf) ==
    UNION {PagesOf(h.vaddr, h.vaddr + h.memsz) : h \in LoadHeaders(elf)}
StackPages(user_sp) == PagesOf(user_sp - USER_STACK_SIZE, user_sp)

UserRead(m, pt, a) ==
    m[pte_ppn(Mapping(m, pt, floor(VirtAddr_from(a))))][page_offset(VirtAddr_from(a))]

\* the bytes of segment h as loaded: its file image, then zeros up to memsz
LoadedAsFiled(m, pt, h) ==
    \A k \in 0..(h.memsz - 1) :
        UserRead(m, pt, h.vaddr + k) = IF k < Len(h.data) THEN h.data[k + 1] ELSE 0

\* C39 (SpecCall): in the address space from_elf returns, the user address
\* p_vaddr + k of every PT_LOAD segment holds byte k of the segment's file
\* image for k < p_filesz and zero for p_filesz <= k < p_memsz, whether
\* p_vaddr is page-aligned or not.
C39_SegmentBytes ==
    (call_in # <<>> /\ call_in.op = "from_elf" /\ call_out # <<>> /\ call_out.ok) =>
        \A h \in LoadHeaders(call_in.elf) : LoadedAsFiled(mem, call_out.ms.page_table, h)

HasRWX(bits) ==
    \/ HasFlag(pte_flags(bits), PTEFlags_R)
    \/ HasFlag(pte_flags(bits), PTEFlags_W)
    \/ HasFlag(pte_flags(bits), PTEFlags_X)

\* every valid last-level entry of the table has one of R, W, X, and every
\* valid entry of its root and second-level tables has none
LeavesAndBranchesDiffer(m, ms) ==
    /\ \A l \in Leaves(m, ms.page_table.root_ppn) : HasRWX(l.bits)
    /\ \A t \in {ms.page_table.root_ppn} \cup MidTables(m, ms) :
           \A i \in ValidIdx(m, t) : ~HasRWX(m[t][i])

\* C40 (SpecCall): in the kernel's address space and in every address space
\* from_elf returns, whatever the flags of the image's segments, valid
\* last-level entries have at least one of R/W/X and valid entries of the
\* two upper levels have none.
C40_LeafOrBranch ==
    (call_in # <<>> /\ call_in.op = "from_elf" /\ call_out # <<>> /\ call_out.ok) =>
        /\ LeavesAndBranchesDiffer(mem, kernel_space)
        /\ LeavesAndBranchesDiffer(mem, call_out.ms)

====
